---- MODULE Spec2Model ----
(***************************************************************************)
(* Channel Streaming Core of tunarr: the lineup resolver and the lineup    *)
(* item builder (helperFuncs), the redirect walk of VideoStream.startStream *)
(* and the supervision of the encoder child process (FFMPEG).              *)
(*                                                                         *)
(* All times are milliseconds, as in the code.                             *)
(* An optional value (Maybe<T>, undefined, null) is a sequence of length   *)
(* 0 or 1.                                                                 *)
(***************************************************************************)
EXTENDS Integers, Sequences, FiniteSets, TLC

VARIABLES
    \* ---- getCurrentProgramAndTimeElapsed applied to one input ----
    resChannel,      \* the channel handed to the resolver
    resDate,         \* the date handed to the resolver
    resOut,          \* <<>> before the call, <<result>> after it
    resLater,        \* <<>>, or <<result>> of a second call SLACK/2 after resDate
    resItem,         \* <<>>, or <<the stream item createLineup makes of resOut>>
    \* ---- one FFMPEG instance and the child processes it started ----
    hasBeenKilled,   \* FFMPEG.hasBeenKilled
    sentData,        \* FFMPEG.sentData
    ffmpeg,          \* FFMPEG.ffmpeg: <<>> or <<index into children>>
    children,        \* the child processes spawned so far, in spawn order
    prevented,       \* number of spawn() calls that returned without a child
    \* ---- the wall clock and the playback cache (channelCache) ----
    clock,           \* new Date().getTime()
    progPlayTime,    \* <<channel, program key>> -> last-played time, 0 = never
    fillerPlayTime,  \* <<channel, filler collection id>> -> last-played time, 0 = never
    cacheItems,      \* channel -> <<>> or <<[t0, item]>>: the last recorded lineup item
    \* ---- createLineup applied again and again to one channel's offline gap ----
    fChannel,        \* the channel whose filler is picked
    lastPick,        \* <<>> or <<what the last createLineup call was given and gave>>
    ticks,           \* clock advances so far
    picks,           \* createLineup calls so far
    \* ---- one client request running VideoStream.startStream ----
    channels,        \* channelDB: channel id -> <<>> or <<channel with its lineup>>
    req,             \* the query: channel (<<>> or <<id>>) and first (<<>>, <<0>> or <<1>>)
    ffmpegOk,        \* fileExists(ffmpegExecutablePath)
    pc,              \* where startStream stands
    startTimestamp,  \* argument of startStream
    allowSkip,       \* argument of startStream
    isLoading,       \* req.first === 0
    firstJoin,       \* isFirst: req.first === 1
    currentProgram,  \* <<>> or <<ProgramAndTimeElapsed>>
    channelContext,  \* id of the channel the walk stands on
    redirectChannels,\* ids of the channels whose redirect was followed
    upperBounds,     \* remaining time of each followed redirect
    lineupItem,      \* <<>> or <<the item to play>>
    resolvedItem,    \* lineupItem as it was before the upper bounds were applied
    cycleFound,      \* the walk met a redirect into redirectChannels
    throttled,       \* wereThereTooManyAttempts returned true
    playThrew,       \* player.play threw
    handed,          \* <<>> or <<playerContext.lineupItem>>
    result,          \* <<>> or <<the VideoStreamResult>>
    \* ---- one GET /stream connection, its player and its output stream ----
    rPc,             \* starting (inside startStream), streaming or failed
    connClosed,      \* the client's connection has closed
    closeListener,   \* req.raw.on('close', ...) has been registered
    stopped,         \* the flag of stop()
    cleanUps,        \* calls of player.cleanUp so far
    outEnded,        \* outStream.push(null) has run
    outPushes,       \* calls of outStream.push(null) so far
    \* ---- several GET /stream requests in flight on one channel ----
    inflight,        \* per request: where it stands, its startTimestamp, allowSkip, item
    recorded,        \* the timestamps passed to recordPlayback for the channel, in order
    \* ---- GET /playlist and GET /m3u8 ----
    StreamCount,     \* the router module's counter
    sessions,        \* per request: route, channel, where it stands, sessionId, response
    issued,          \* the session ids taken from the counter, in order
    \* ---- the argument lists one FFMPEG instance builds ----
    plan,            \* the instance's fields that spawn reads and writes
    spawned,         \* per spawn call: <<its inputs, the argument list it built>>
    emitted,         \* the events spawnError and spawnOffline emitted themselves
    \* ---- GET /video and GET /radio ----
    concat           \* per request: route, channel, where it stands, result, reply

resolverVars == <<resChannel, resDate, resOut, resLater, resItem>>
encoderVars == <<hasBeenKilled, sentData, ffmpeg, children, prevented>>
cacheVars == <<clock, progPlayTime, fillerPlayTime, cacheItems>>
fillerVars == <<fChannel, lastPick, ticks, picks>>

requestVars == <<channels, req, ffmpegOk>>
streamVars == <<pc, startTimestamp, allowSkip, isLoading, firstJoin, currentProgram,
                channelContext, redirectChannels, upperBounds, lineupItem, resolvedItem,
                cycleFound, throttled, playThrew, handed, result>>

routeVars == <<rPc, connClosed, closeListener, stopped, cleanUps, outEnded, outPushes>>
concurrentVars == <<inflight, recorded>>
sessionVars == <<StreamCount, sessions, issued>>
planVars == <<plan, spawned, emitted>>
concatVars == <<concat>>

\* What each specification leaves alone.
notResolver == <<encoderVars, cacheVars, fillerVars, requestVars, streamVars, routeVars, concurrentVars,
                sessionVars, planVars, concatVars>>
notEncoder == <<resolverVars, cacheVars, fillerVars, requestVars, streamVars, routeVars, concurrentVars,
                sessionVars, planVars, concatVars>>
notFiller == <<resolverVars, encoderVars, requestVars, streamVars, routeVars, concurrentVars,
                sessionVars, planVars, concatVars>>
notStream == <<resolverVars, encoderVars, fillerVars, requestVars, routeVars, concurrentVars,
                sessionVars, planVars, concatVars>>
notRoute == <<resolverVars, cacheVars, fillerVars, requestVars, streamVars, concurrentVars,
                sessionVars, planVars, concatVars>>
notConcurrent == <<resolverVars, encoderVars, fillerVars, requestVars, streamVars, routeVars,
                   sessionVars, planVars, concatVars>>
notSession == <<resolverVars, encoderVars, cacheVars, fillerVars, requestVars, streamVars,
                routeVars, concurrentVars, planVars, concatVars>>
notPlan == <<resolverVars, encoderVars, cacheVars, fillerVars, requestVars, streamVars,
             routeVars, concurrentVars, sessionVars, concatVars>>
notConcat == <<resolverVars, encoderVars, cacheVars, fillerVars, requestVars, streamVars,
               routeVars, concurrentVars, sessionVars, planVars>>

vars == <<resChannel, resDate, resOut, resLater, resItem,
          hasBeenKilled, sentData, ffmpeg, children, prevented,
          clock, progPlayTime, fillerPlayTime, cacheItems,
          fChannel, lastPick, ticks, picks,
          channels, req, ffmpegOk,
          pc, startTimestamp, allowSkip, isLoading, firstJoin, currentProgram,
          channelContext, redirectChannels, upperBounds, lineupItem, resolvedItem,
          cycleFound, throttled, playThrew, handed, result,
          rPc, connClosed, closeListener, stopped, cleanUps, outEnded, outPushes,
          inflight, recorded, StreamCount, sessions, issued, plan, spawned, emitted,
          concat>>

(***************************************************************************)
(* Bounds of the model.                                                    *)
(***************************************************************************)
MaxLineupLen == 3
\* Child processes one FFMPEG instance starts, and spawn() calls it refuses.
MaxChildren == 2
MaxPrevented == 1
\* Clock advances and createLineup calls in the filler specification.
MaxTicks == 2
MaxPicks == 2
\* Iterations of startStream's redirect loop that are followed.
MaxHops == 6
\* GET /stream requests in flight at once.
MaxRequests == 2
\* GET /playlist and GET /m3u8 requests the process serves.
MaxSessions == 3
\* spawn calls on one FFMPEG instance.
MaxSpawns == 2
\* GET /video and GET /radio requests the process serves.
MaxConcat == 2

(***************************************************************************)
(* Program constants.                                                      *)
(***************************************************************************)
SLACK == 9900

None == <<>>
Some(x) == <<x>>

Min(a, b) == IF a <= b THEN a ELSE b
Max(a, b) == IF a >= b THEN a ELSE b

RECURSIVE SumDurations(_, _)
\* Sum of the durations of the first n programs of a lineup.
SumDurations(programs, n) ==
    IF n = 0 THEN 0 ELSE SumDurations(programs, n - 1) + programs[n].duration

(***************************************************************************)
(* Lineup items.  type is content, redirect or offline; a redirect names   *)
(* its target channel.  isOffline of helperFuncs is type = offline.        *)
(***************************************************************************)
Content(key, d) == [type |-> "content", duration |-> d, channel |-> "none", key |-> key, error |-> <<>>]
Redirect(target, d) == [type |-> "redirect", duration |-> d, channel |-> target, key |-> "none", error |-> <<>>]
Offline(d) == [type |-> "offline", duration |-> d, channel |-> "none", key |-> "none", error |-> <<>>]

\* offlineProgram(duration): the flex program handed out before the channel starts.
offlineProgram(d) == Offline(d)

(***************************************************************************)
(* getCurrentProgramAndTimeElapsed.  programIndex is 0-based as in the     *)
(* code; threw is TRUE when the function throws ('No program found').      *)
(***************************************************************************)
\* Mutant: the smoothing threshold taken inclusively.
SmoothedAway_inclusive(program, timeElapsed) ==
    /\ program.duration > 2 * SLACK
    /\ timeElapsed >= program.duration - SLACK

SmoothedAway(program, timeElapsed) ==
    /\ program.duration > 2 * SLACK
    /\ timeElapsed > program.duration - SLACK

RECURSIVE FindProgram_offByOne(_, _, _)
\* Mutant: an item is taken to contain the position one past its end.
FindProgram_offByOne(programs, y, timeElapsed) ==
    IF y >= Len(programs) THEN <<-1, timeElapsed>>
    ELSE LET program == programs[y + 1] IN
         IF timeElapsed - program.duration <= 0
         THEN IF SmoothedAway(program, timeElapsed)
              THEN <<(y + 1) % Len(programs), 0>>
              ELSE <<y, timeElapsed>>
         ELSE FindProgram_offByOne(programs, y + 1, timeElapsed - program.duration)

RECURSIVE FindProgram_noReset(_, _, _)
\* Mutant: smoothing moves to the next item and forgets to reset timeElapsed.
FindProgram_noReset(programs, y, timeElapsed) ==
    IF y >= Len(programs) THEN <<-1, timeElapsed>>
    ELSE LET program == programs[y + 1] IN
         IF timeElapsed - program.duration < 0
         THEN IF SmoothedAway(program, timeElapsed)
              THEN <<(y + 1) % Len(programs), timeElapsed>>
              ELSE <<y, timeElapsed>>
         ELSE FindProgram_noReset(programs, y + 1, timeElapsed - program.duration)

RECURSIVE FindProgram(_, _, _)
\* The for loop: y is the 0-based loop index, timeElapsed the running value.
\* Yields <<currentProgramIndex, timeElapsed>>; index -1 when the loop ends
\* without a hit.
FindProgram(programs, y, timeElapsed) ==
    IF y >= Len(programs) THEN <<-1, timeElapsed>>
    ELSE LET program == programs[y + 1] IN
         IF timeElapsed - program.duration < 0
         THEN IF SmoothedAway(program, timeElapsed)
              THEN <<(y + 1) % Len(programs), 0>>
              ELSE <<y, timeElapsed>>
         ELSE FindProgram(programs, y + 1, timeElapsed - program.duration)

Thrown == [program |-> Offline(0), timeElapsed |-> 0, programIndex |-> -1, threw |-> TRUE]

\* Mutant: the lineup is searched before the start time is looked at.
getCurrentProgramAndTimeElapsed_lineupFirst(date, channel) ==
    LET found == IF channel.duration = 0 THEN <<-1, 0>>
                 ELSE FindProgram(channel.programs, 0,
                                  (Max(date - channel.startTime, 0)) % channel.duration)
    IN IF found[1] = -1 THEN Thrown
       ELSE IF channel.startTime > date
       THEN [program |-> offlineProgram(channel.startTime - date),
             timeElapsed |-> 0, programIndex |-> -1, threw |-> FALSE]
       ELSE [program |-> channel.programs[found[1] + 1],
             timeElapsed |-> found[2],
             programIndex |-> found[1], threw |-> FALSE]

getCurrentProgramAndTimeElapsed(date, channel) ==
    IF channel.startTime > date
    THEN [program |-> offlineProgram(channel.startTime - date),
          timeElapsed |-> 0, programIndex |-> -1, threw |-> FALSE]
    ELSE IF channel.duration = 0
    THEN Thrown   \* x % 0 is NaN, no comparison with NaN holds, the loop finds nothing
    ELSE LET found == FindProgram(channel.programs, 0,
                                  (date - channel.startTime) % channel.duration)
         IN IF found[1] = -1 THEN Thrown
            ELSE [program |-> channel.programs[found[1] + 1],
                  timeElapsed |-> found[2],
                  programIndex |-> found[1], threw |-> FALSE]

(***************************************************************************)
(* Filler shows.  A clip has a key and a duration; a collection has an id, *)
(* a weight, a cooldown and its clips (content).                           *)
(***************************************************************************)
Clip(key, d) == [key |-> key, duration |-> d]
Collection(id, weight, cooldown, content) ==
    [id |-> id, weight |-> weight, cooldown |-> cooldown, content |-> content]

SEVEN_DAYS == 7 * 24 * 60 * 60 * 1000
FIVE_HOURS == 5 * 60 * 60 * 1000
DEFAULT_FILLER_REPEAT_COOLDOWN == 30 * 60 * 1000
INITIAL_MINIMUM_WAIT == 1000000000
TEN_MINUTES == 10 * 60 * 1000
FIRST_JOIN_MARGIN == 15000
START_SNAP == 30000

CeilDiv(a, b) == (a + b - 1) \div b

\* norm_s: Math.ceil((Math.ceil(x / 600) + 1)^2 / 1000000) + 1
norm_s(x) ==
    LET y == CeilDiv(x, 600) + 1 IN CeilDiv(y * y, 1000000) + 1

RECURSIVE Log2Floor(_)
Log2Floor(m) == IF m < 2 THEN 0 ELSE 1 + Log2Floor(m \div 2)

RECURSIVE Pow2(_)
Pow2(h) == IF h = 0 THEN 1 ELSE 2 * Pow2(h - 1)

\* Math.ceil(1000 * Math.log(ms / 60000)) for ms >= 60000, to within 3:
\* ln(m) = h ln 2 + ln(r), r in [1, 2), ln(r) ~ 2z + 2z^3/3, z = (r-1)/(r+1).
CeilLnMilli(ms) ==
    LET h == Log2Floor(ms \div 60000)
        base == 60000 * Pow2(h)
        z == (1000 * (ms - base)) \div (ms + base)
    IN 693 * h + 2 * z + (2 * z * z * z) \div 3000000 + 1

\* norm_d: x in minutes, 3 + ln(x) from 3 minutes on;
\* Math.ceil(10000 * (Math.ceil(x * 1000) + 1) / 1000000) + 1
norm_d(ms) ==
    LET c == IF ms >= 3 * 60000 THEN 3000 + CeilLnMilli(ms) ELSE CeilDiv(ms, 60)
    IN CeilDiv(10000 * (c + 1), 1000000) + 1

\* weighedPick(a, total) = random.bool(a, total): FALSE for a <= 0, TRUE for
\* a >= total, either otherwise.
weighedPick(a, total) ==
    IF a <= 0 THEN {FALSE} ELSE IF a >= total THEN {TRUE} ELSE {TRUE, FALSE}

(***************************************************************************)
(* channelCache, read side.  The cache is keyed by channel and program key *)
(* (by channel and collection id for filler shows); 0 means never played.  *)
(***************************************************************************)
getProgramLastPlayTime(ppt, channelId, clip) == ppt[<<channelId, clip.key>>]
getFillerLastPlayTime(fpt, channelId, fillerId) == fpt[<<channelId, fillerId>>]

(***************************************************************************)
(* pickRandomWithMaxDuration.  cx holds what the function reads: ppt, fpt  *)
(* (the cache), t0 (new Date().getTime()), channelId, cooldown             *)
(* (channel.fillerRepeatCooldown), fillers, maxDuration.  st is the loop   *)
(* state: pick1, minimumWait, listM, fillerId, and for the current list    *)
(* pickedList, n and stop (the inner loop hit break).  Each operator       *)
(* yields the set of states the random draws can lead to.                  *)
(***************************************************************************)
RepeatCooldown(channel) ==
    IF channel.fillerRepeatCooldown = None THEN DEFAULT_FILLER_REPEAT_COOLDOWN
    ELSE channel.fillerRepeatCooldown[1]

\* Mutant: the clip gate without the duration test.
FitsGap_always(clip, maxDuration) == TRUE

FitsGap(clip, maxDuration) == clip.duration <= maxDuration + SLACK

\* Mutant: the repeat cooldown shortened by a second SLACK.
OnRepeatCooldown_short(timeSince, cooldown) == timeSince < cooldown - 2 * SLACK

OnRepeatCooldown(timeSince, cooldown) == timeSince < cooldown - SLACK

TimeSince(t0, t1) == IF t1 = 0 THEN SEVEN_DAYS ELSE t0 - t1

LowerWait(st, clip, w, maxDuration) ==
    IF clip.duration + w <= maxDuration + SLACK
    THEN [st EXCEPT !.minimumWait = Min(@, w)]
    ELSE st

\* Mutant: a list is let through whatever its cooldown.
ListGate_open(cx, j, clip, st) ==
    LET listM == st.listM + cx.fillers[j].weight IN
    {IF b THEN [st EXCEPT !.listM = listM, !.pickedList = TRUE,
                          !.fillerId = Some(cx.fillers[j].id), !.n = 0]
          ELSE [st EXCEPT !.listM = listM, !.stop = TRUE]
     : b \in weighedPick(cx.fillers[j].weight, listM)}

\* Lines 265-289: the first clip of list j that gets this far decides whether
\* the list is picked.
ListGate(cx, j, clip, st) ==
    LET timeSince == TimeSince(cx.t0, getFillerLastPlayTime(cx.fpt, cx.channelId, cx.fillers[j].id))
    IN IF timeSince + SLACK >= cx.fillers[j].cooldown
       THEN LET listM == st.listM + cx.fillers[j].weight IN
            {IF b THEN [st EXCEPT !.listM = listM, !.pickedList = TRUE,
                                  !.fillerId = Some(cx.fillers[j].id), !.n = 0]
                  ELSE [st EXCEPT !.listM = listM, !.stop = TRUE]
             : b \in weighedPick(cx.fillers[j].weight, listM)}
       ELSE {[LowerWait(st, clip, cx.fillers[j].cooldown - timeSince, cx.maxDuration)
                 EXCEPT !.stop = TRUE]}

\* Lines 290-299: the clip lottery.
ClipLottery(clip, timeSince, st) ==
    IF timeSince <= 0 THEN {st}
    ELSE LET w == norm_s(IF timeSince >= FIVE_HOURS THEN FIVE_HOURS ELSE timeSince)
                  + norm_d(clip.duration)
             n == st.n + w
         IN {IF b THEN [st EXCEPT !.n = n, !.pick1 = Some(clip)]
                  ELSE [st EXCEPT !.n = n]
             : b \in weighedPick(w, n)}

\* One iteration of the inner loop (lines 251-300).
ClipStep(cx, j, i, st) ==
    LET clip == cx.fillers[j].content[i] IN
    IF ~FitsGap(clip, cx.maxDuration) THEN {st}
    ELSE LET timeSince == TimeSince(cx.t0, getProgramLastPlayTime(cx.ppt, cx.channelId, clip)) IN
         IF OnRepeatCooldown(timeSince, cx.cooldown)
         THEN {LowerWait(st, clip, cx.cooldown - timeSince, cx.maxDuration)}
         ELSE UNION {IF g.stop THEN {g} ELSE ClipLottery(clip, timeSince, g)
                     : g \in IF st.pickedList THEN {st} ELSE ListGate(cx, j, clip, st)}

RECURSIVE ClipLoop(_, _, _, _)
ClipLoop(cx, j, i, st) ==
    IF i > Len(cx.fillers[j].content) \/ st.stop THEN {st}
    ELSE UNION {ClipLoop(cx, j, i + 1, s) : s \in ClipStep(cx, j, i, st)}

RECURSIVE ListLoop(_, _, _)
ListLoop(cx, j, st) ==
    IF j > Len(cx.fillers) THEN {st}
    ELSE UNION {ListLoop(cx, j + 1, s)
                : s \in ClipLoop(cx, j, 1, [st EXCEPT !.pickedList = FALSE, !.n = 0, !.stop = FALSE])}

PickState0 ==
    [pick1 |-> None, minimumWait |-> INITIAL_MINIMUM_WAIT, listM |-> 0,
     fillerId |-> None, pickedList |-> FALSE, n |-> 0, stop |-> FALSE]

\* The set of {filler, minimumWait} results; filler is <<>> or
\* <<[key, duration, fillerId]>>.
pickRandomWithMaxDuration(ppt, fpt, t0, channel, fillers, maxDuration) ==
    LET cx == [ppt |-> ppt, fpt |-> fpt, t0 |-> t0, channelId |-> channel.id,
               cooldown |-> RepeatCooldown(channel), fillers |-> fillers,
               maxDuration |-> maxDuration]
    IN {[filler |-> IF st.pick1 = None THEN None
                    ELSE Some([key |-> st.pick1[1].key, duration |-> st.pick1[1].duration,
                               fillerId |-> st.fillerId]),
         minimumWait |-> st.minimumWait]
        : st \in ListLoop(cx, 1, PickState0)}

(***************************************************************************)
(* createLineup.  A stream lineup item: type program, commercial, offline  *)
(* or loading; streamDuration, beginningOffset, fillerId and error are     *)
(* optional.                                                               *)
(***************************************************************************)
StreamItem(type, key, start, streamDuration, duration, beginningOffset, fillerId, error) ==
    [type |-> type, key |-> key, start |-> start, streamDuration |-> streamDuration,
     duration |-> duration, beginningOffset |-> beginningOffset,
     fillerId |-> fillerId, error |-> error]

\* Mutant: a draw past the upper end.
RandomInteger_beyond(more) == {more + 1}

\* random.integer(0, more): the two ends and the middle stand for the range.
RandomInteger(more) == {0, more \div 2, more}

\* Mutant: the gap is never cut to minimumWait.
GapUsed_whole(remaining0, randomResult) == remaining0

\* Lines 135-141: with no filler and a shorter minimumWait, the gap is cut.
GapUsed(remaining0, randomResult) ==
    IF randomResult.filler = None /\ remaining0 > randomResult.minimumWait
    THEN randomResult.minimumWait ELSE remaining0

\* Mutant: the channel's fallback clip is never taken.
Special_none(channel) == None

\* Lines 124-127: the channel's fallback clip, if it has one to show.
Special(channel) ==
    IF channel.offlineMode = "clip" /\ Len(channel.fallback) # 0
    THEN Some([key |-> channel.fallback[1].key,
               duration |-> channel.fallback[1].duration,
               fillerId |-> None])
    ELSE None

\* Mutant: the clip plays to its end whatever the gap.
FillerStreamDuration_toEnd(duration, fillerstart, remaining) == duration - fillerstart

\* Lines 172-175: the rest of the clip, cut to the gap, at least 1.
FillerStreamDuration(duration, fillerstart, remaining) ==
    Max(1, Min(duration - fillerstart, remaining))

\* Lines 135-196: what createLineup makes of the picker's result.
OfflineLineup(remaining0, randomResult, channel, isFirst) ==
    LET special == Special(channel)
        remaining == GapUsed(remaining0, randomResult)
        isSpecial == randomResult.filler = None
        filler == IF isSpecial THEN special ELSE randomResult.filler
    IN IF filler # None
       THEN LET f == filler[1]
                starts ==
                    IF isSpecial
                    THEN {IF f.duration > remaining THEN f.duration - remaining ELSE 0}
                    ELSE IF isFirst
                    THEN LET fs == Max(0, f.duration - remaining)
                             more == Max(0, f.duration - fs - FIRST_JOIN_MARGIN - SLACK)
                         IN {fs + r : r \in RandomInteger(more)}
                    ELSE {0}
            IN {StreamItem("commercial", f.key, fillerstart,
                           Some(FillerStreamDuration(f.duration, fillerstart, remaining)),
                           f.duration, Some(0), f.fillerId, None)
                : fillerstart \in starts}
       ELSE LET r == Min(remaining, TEN_MINUTES)
            IN {StreamItem("offline", "none", 0, Some(r), r, Some(0), None, None)}

\* Mutant: the content case without the snap to 0.
ProgramLineup_noSnap(activeProgram, timeElapsed0) ==
    StreamItem("program", activeProgram.key, timeElapsed0,
               Some(activeProgram.duration - timeElapsed0),
               activeProgram.duration, Some(0), None, None)

\* The content case, lines 198-218.
ProgramLineup(activeProgram, timeElapsed0) ==
    LET timeElapsed == IF timeElapsed0 < START_SNAP THEN 0 ELSE timeElapsed0
        beginningOffset == Max(0, timeElapsed0 - timeElapsed)
    IN StreamItem("program", activeProgram.key, timeElapsed,
                  Some(activeProgram.duration - timeElapsed),
                  activeProgram.duration, Some(beginningOffset), None, None)

\* The set of items createLineup can return (its one-element array).
createLineup(ppt, fpt, t0, obj, channel, fillers, isFirst) ==
    LET activeProgram == obj.program
        remaining == activeProgram.duration - obj.timeElapsed
    IN IF activeProgram.error # None
       THEN {StreamItem("offline", "none", 0, Some(remaining), remaining, Some(0),
                        None, activeProgram.error)}
       ELSE IF activeProgram.type = "offline"
       THEN UNION {OfflineLineup(remaining, rr, channel, isFirst)
                   : rr \in pickRandomWithMaxDuration(ppt, fpt, t0, channel, fillers,
                                remaining + (IF isFirst THEN SEVEN_DAYS ELSE 0))}
       ELSE {ProgramLineup(activeProgram, obj.timeElapsed)}

(***************************************************************************)
(* channelCache, write side: recordPlayback stores the item as the         *)
(* channel's current lineup item and the timestamp as the last-played time *)
(* of the item's program and of its filler collection.                     *)
(***************************************************************************)
ChannelIds == {"X", "Y", "Z"}
ProgramKeys == {"a", "b", "c", "f", "p", "q"}
FillerIds == {"F1", "F2"}

RecordedPlayTimes(ppt, channelId, t0, item) ==
    IF item.key \in ProgramKeys THEN [ppt EXCEPT ![<<channelId, item.key>>] = t0] ELSE ppt

RecordedFillerTimes(fpt, channelId, t0, item) ==
    IF item.fillerId # None THEN [fpt EXCEPT ![<<channelId, item.fillerId[1]>>] = t0] ELSE fpt

RecordedItems(ci, channelId, t0, item) ==
    [ci EXCEPT ![channelId] = Some([t0 |-> t0, item |-> item])]

CacheEmpty ==
    /\ progPlayTime = [k \in ChannelIds \X ProgramKeys |-> 0]
    /\ fillerPlayTime = [k \in ChannelIds \X FillerIds |-> 0]
    /\ cacheItems = [c \in ChannelIds |-> None]

(***************************************************************************)
(* Inputs of the resolver specification: every lineup of 1..MaxLineupLen   *)
(* content items with durations around the smoothing thresholds, and the   *)
(* dates at and around every item boundary, in the first and second loop.  *)
(***************************************************************************)
DurationChoices == {5000, 2 * SLACK, 2 * SLACK + 1, 30000, 60000, 120000}
StartTimeChoices == {0, 7000}

LineupsOfLen(n) == [1..n -> DurationChoices]
ResolverLineups == UNION {LineupsOfLen(n) : n \in 1..MaxLineupLen}

MkChannel(id, startTime, durs) ==
    [id |-> id, startTime |-> startTime,
     programs |-> [k \in 1..Len(durs) |-> Content("p", durs[k])],
     duration |-> SumDurations([k \in 1..Len(durs) |-> Content("p", durs[k])], Len(durs))]

\* Offsets into the loop that sit on, just before and just after the places
\* where the resolver's answer changes.
BoundaryOffsets(ch) ==
    UNION {LET s == SumDurations(ch.programs, k - 1)
               d == ch.programs[k].duration
           IN {s, s + 1, s + d - SLACK - 1, s + d - SLACK, s + d - SLACK + 1,
               s + d - 5, s + d - 1, s + 5000, s + 10000,
                s + START_SNAP - 1, s + START_SNAP}
           : k \in 1..Len(ch.programs)}

ResolverDates(ch) ==
    {ch.startTime + o : o \in {x \in BoundaryOffsets(ch) : x >= 0 /\ x < ch.duration}}
    \cup {ch.startTime + ch.duration + o : o \in {x \in BoundaryOffsets(ch) : x >= 0 /\ x < ch.duration}}

\* The FFMPEG instance right after its constructor.
EncoderFresh ==
    /\ hasBeenKilled = FALSE
    /\ sentData = FALSE
    /\ ffmpeg = None
    /\ children = <<>>
    /\ prevented = 0

\* The filler specification's variables when it is not the one running.
FillerIdle ==
    /\ fChannel = [id |-> "X", fillerRepeatCooldown |-> None, offlineMode |-> "pic",
                   fallback |-> <<>>, fillers |-> <<>>]
    /\ lastPick = None
    /\ ticks = 0
    /\ picks = 0

\* The request's variables before any request has arrived.
StreamFresh ==
    /\ pc = "start"
    /\ allowSkip = TRUE
    /\ isLoading = FALSE
    /\ firstJoin = FALSE
    /\ currentProgram = None
    /\ redirectChannels = <<>>
    /\ upperBounds = <<>>
    /\ lineupItem = None
    /\ resolvedItem = None
    /\ cycleFound = FALSE
    /\ throttled = FALSE
    /\ playThrew = FALSE
    /\ handed = None
    /\ result = None

\* The connection's variables before startStream has returned.
RouteFresh ==
    /\ rPc = "starting"
    /\ connClosed = FALSE
    /\ closeListener = FALSE
    /\ stopped = FALSE
    /\ cleanUps = 0
    /\ outEnded = FALSE
    /\ outPushes = 0

\* No request in flight, nothing recorded.
ConcurrentIdle ==
    /\ inflight = [r \in 1..MaxRequests |->
                     [pc |-> "idle", startTimestamp |-> 0, allowSkip |-> TRUE, item |-> None]]
    /\ recorded = <<>>

\* No /playlist or /m3u8 request yet: let StreamCount = 0 (part_003:16).
SessionIdle ==
    /\ StreamCount = 0
    /\ sessions = [r \in 1..MaxSessions |->
                     [route |-> "none", channel |-> None, pc |-> "idle", sessionId |-> None,
                      response |-> None]]
    /\ issued = <<>>

\* No /video or /radio request yet.
ConcatIdle == concat = <<>>

\* No FFMPEG instance under study.
PlanIdle ==
    /\ plan = None
    /\ spawned = <<>>
    /\ emitted = <<>>

StreamIdle ==
    /\ channels = [c \in ChannelIds |-> None]
    /\ req = [channel |-> None, first |-> None]
    /\ ffmpegOk = TRUE
    /\ startTimestamp = 0
    /\ channelContext = "X"
    /\ StreamFresh

ResolverInit ==
    /\ EncoderFresh
    /\ CacheEmpty
    /\ clock = 1
    /\ FillerIdle
    /\ StreamIdle
    /\ RouteFresh
    /\ ConcurrentIdle
    /\ SessionIdle
    /\ ConcatIdle
    /\ PlanIdle
    /\ \E st \in StartTimeChoices, durs \in ResolverLineups :
           resChannel = MkChannel("X", st, durs)
    /\ resDate \in ResolverDates(resChannel)
    /\ resOut = None
    /\ resLater = None
    /\ resItem = None

Resolve ==
    /\ resOut = None
    /\ resOut' = Some(getCurrentProgramAndTimeElapsed(resDate, resChannel))
    /\ UNCHANGED <<resChannel, resDate, resLater, resItem>>
    /\ UNCHANGED notResolver

\* A second call for the same channel, SLACK/2 later.
ResolveLater ==
    /\ resOut # None
    /\ resLater = None
    /\ resLater' = Some(getCurrentProgramAndTimeElapsed(resDate + SLACK \div 2, resChannel))
    /\ UNCHANGED <<resChannel, resDate, resOut, resItem>>
    /\ UNCHANGED notResolver

\* createLineup applied to what the resolver returned (no fillers, not a
\* first join).
BuildItem ==
    /\ resOut # None
    /\ ~resOut[1].threw
    /\ resItem = None
    /\ \E item \in createLineup(progPlayTime, fillerPlayTime, clock, resOut[1],
                                resChannel, <<>>, FALSE) :
         resItem' = Some(item)
    /\ UNCHANGED <<resChannel, resDate, resOut, resLater>>
    /\ UNCHANGED notResolver

ResolverNext == Resolve \/ ResolveLater \/ BuildItem

SpecResolver == ResolverInit /\ [][ResolverNext]_vars

(***************************************************************************)
(* The resolver on channels as the database can hand them over: a lineup   *)
(* of no programs, a stored duration that is not the sum of the programs'  *)
(* durations, and dates before the channel's start.                        *)
(***************************************************************************)
StoredLineups == {<<>>} \cup UNION {[1..n -> {5000, 30000, 60000}] : n \in 1..2}

\* The channel with the duration column as given.
ChannelAsStored(id, startTime, durs, duration) ==
    [MkChannel(id, startTime, durs) EXCEPT !.duration = duration]

StoredDurations(durs) ==
    LET sum == MkChannel("X", 0, durs).duration
    IN {d \in {0, sum, sum - SLACK, sum - SLACK - 1, sum + SLACK, sum + SLACK + 1,
               sum + 60000} : d >= 0}

StoredDates(ch) ==
    {d \in {ch.startTime - 7000, ch.startTime - 1, ch.startTime, ch.startTime + 1000,
            ch.startTime + 29000, ch.startTime + 61000, ch.startTime + 125000} : d >= 0}

LineupInit ==
    /\ EncoderFresh
    /\ CacheEmpty
    /\ clock = 1
    /\ FillerIdle
    /\ StreamIdle
    /\ RouteFresh
    /\ ConcurrentIdle
    /\ SessionIdle
    /\ ConcatIdle
    /\ PlanIdle
    /\ \E st \in StartTimeChoices, durs \in StoredLineups :
         \E duration \in StoredDurations(durs) :
           resChannel = ChannelAsStored("X", st, durs, duration)
    /\ resDate \in StoredDates(resChannel)
    /\ resOut = None
    /\ resLater = None
    /\ resItem = None

LineupNext == Resolve \/ ResolveLater

SpecLineup == LineupInit /\ [][LineupNext]_vars

(***************************************************************************)
(* FFMPEG: spawn, startProcess (spawnConcat), kill, and the exit handler.  *)
(* spawn and startProcess are synchronous, so each call is one step; the   *)
(* child's output and its exit arrive as later events.                     *)
(*                                                                         *)
(* A child: running or exited; sigkill: SIGKILL was sent to it; handlers:  *)
(* the exit listener was registered; bytes: it wrote to stdout; code: its  *)
(* exit code, <<>> for an exit by signal (code === null); events: what the *)
(* exit listener emitted on the FFMPEG emitter.                            *)
(***************************************************************************)
NewChild(handlers, sigkill, afterKill) ==
    [state |-> "running", sigkill |-> sigkill, handlers |-> handlers,
     bytes |-> FALSE, code |-> None, events |-> <<>>, spawnedAfterKill |-> afterKill]

ExitCodes == {None, Some(0), Some(1), Some(255)}

\* Mutant: the exit listener without its hasBeenKilled test for code 255.
ExitEvents_noisy(code, killed, sent) ==
    IF code = None THEN <<"close">>
    ELSE IF code[1] = 0 THEN <<"end">>
    ELSE IF code[1] = 255 THEN (IF ~sent THEN <<"error">> ELSE <<>>) \o <<"close">>
    ELSE <<"error">>

\* The 'exit' listener of spawn and of startProcess (the two are the same).
ExitEvents(code, killed, sent) ==
    IF code = None THEN <<"close">>
    ELSE IF code[1] = 0 THEN <<"end">>
    ELSE IF code[1] = 255
    THEN IF killed THEN <<"close">>
         ELSE (IF ~sent THEN <<"error">> ELSE <<>>) \o <<"close">>
    ELSE <<"error">>

\* spawn(): the tail of the method, from the first hasBeenKilled check on.
SpawnStream ==
    /\ UNCHANGED <<hasBeenKilled, sentData>>
    /\ IF hasBeenKilled
       THEN \* 'ffmpeg preemptively killed': return before child_process.spawn
            /\ prevented < MaxPrevented
            /\ prevented' = prevented + 1
            /\ UNCHANGED <<ffmpeg, children>>
       ELSE /\ Len(children) < MaxChildren
            /\ ffmpeg' = Some(Len(children) + 1)
            \* the second check reads the same flag: nothing runs in between
            /\ children' = Append(children,
                              IF hasBeenKilled THEN NewChild(FALSE, TRUE, TRUE)
                              ELSE NewChild(TRUE, FALSE, FALSE))
            /\ UNCHANGED prevented
    /\ UNCHANGED notEncoder

\* Mutant: startProcess without its hasBeenKilled check.
SpawnConcat_noKillCheck ==
    /\ Len(children) < MaxChildren
    /\ ffmpeg' = Some(Len(children) + 1)
    /\ children' = Append(children, NewChild(TRUE, FALSE, hasBeenKilled))
    /\ UNCHANGED <<hasBeenKilled, sentData, prevented>>
    /\ UNCHANGED notEncoder

\* spawnConcat() -> startProcess(): spawns first, then checks hasBeenKilled.
SpawnConcat ==
    /\ Len(children) < MaxChildren
    /\ ffmpeg' = Some(Len(children) + 1)
    /\ children' = Append(children,
                      IF hasBeenKilled THEN NewChild(FALSE, TRUE, TRUE)
                      ELSE NewChild(TRUE, FALSE, FALSE))
    /\ UNCHANGED <<hasBeenKilled, sentData, prevented>>
    /\ UNCHANGED notEncoder

\* kill()
Kill ==
    /\ hasBeenKilled' = TRUE
    /\ children' = IF ffmpeg # None
                   THEN [children EXCEPT ![ffmpeg[1]].sigkill = TRUE]
                   ELSE children
    /\ UNCHANGED <<sentData, ffmpeg, prevented>>
    /\ UNCHANGED notEncoder

\* The child writes to stdout.  Nothing in FFMPEG assigns sentData.
ChildData(c) ==
    /\ children[c].state = "running"
    /\ ~children[c].bytes
    /\ children' = [children EXCEPT ![c].bytes = TRUE]
    /\ UNCHANGED <<hasBeenKilled, sentData, ffmpeg, prevented>>
    /\ UNCHANGED notEncoder

\* The child exits, by itself with a code or by a signal; the exit listener,
\* when one was registered, emits.
ChildExit(c, code) ==
    /\ children[c].state = "running"
    /\ children' = [children EXCEPT
                      ![c].state = "exited",
                      ![c].code = code,
                      ![c].events = IF children[c].handlers
                                    THEN ExitEvents(code, hasBeenKilled, sentData)
                                    ELSE <<>>]
    /\ UNCHANGED <<hasBeenKilled, sentData, ffmpeg, prevented>>
    /\ UNCHANGED notEncoder

ChildDataStep == \E c \in DOMAIN children : ChildData(c)
ChildExitStep == \E c \in DOMAIN children, code \in ExitCodes : ChildExit(c, code)

EncoderInit ==
    /\ EncoderFresh
    /\ CacheEmpty
    /\ clock = 1
    /\ FillerIdle
    /\ StreamIdle
    /\ RouteFresh
    /\ ConcurrentIdle
    /\ SessionIdle
    /\ ConcatIdle
    /\ PlanIdle
    /\ resChannel = MkChannel("X", 0, <<60000>>)
    /\ resDate = 0
    /\ resOut = None
    /\ resLater = None
    /\ resItem = None

EncoderNext ==
    \/ SpawnStream
    \/ SpawnConcat
    \/ Kill
    \/ ChildDataStep
    \/ ChildExitStep

SpecEncoder == EncoderInit /\ [][EncoderNext]_vars

(***************************************************************************)
(* The filler specification: one channel's offline gap is resolved again   *)
(* and again while the clock advances; each resolve is createLineup on an  *)
(* offline program followed by startStream's recordPlayback of the item.   *)
(***************************************************************************)
F1 == Collection("F1", 1, 0, <<Clip("a", 30000), Clip("b", 170000)>>)
F2 == Collection("F2", 2, 25000, <<Clip("c", 15000)>>)

FillerChannels ==
    {[id |-> "X", fillerRepeatCooldown |-> cd, offlineMode |-> fb[1], fallback |-> fb[2],
      fillers |-> fs]
     : cd \in {Some(20000), None},
       fb \in {<<"pic", <<>>>>, <<"clip", <<Clip("f", 50000)>>>>},
       fs \in {<<F1>>, <<F1, F2>>, <<F2>>}}

\* Remaining time of the offline gap, and the steps of the clock.
GapChoices == {5000, 25000, 900000}
TickChoices == {100, 10000}

FillerInit ==
    /\ EncoderFresh
    /\ resChannel = MkChannel("X", 0, <<60000>>)
    /\ resDate = 0
    /\ resOut = None
    /\ resLater = None
    /\ resItem = None
    /\ CacheEmpty
    /\ clock = 1
    /\ fChannel \in FillerChannels
    /\ lastPick = None
    /\ ticks = 0
    /\ picks = 0
    /\ StreamIdle
    /\ RouteFresh
    /\ ConcurrentIdle
    /\ SessionIdle
    /\ ConcatIdle
    /\ PlanIdle

Tick ==
    /\ ticks < MaxTicks
    /\ \E d \in TickChoices : clock' = clock + d
    /\ ticks' = ticks + 1
    /\ UNCHANGED <<progPlayTime, fillerPlayTime, cacheItems, fChannel, lastPick, picks>>
    /\ UNCHANGED notFiller

PickFillerFor(gaps) ==
    /\ picks < MaxPicks
    /\ \E R \in gaps, isFirst \in BOOLEAN :
         \E rr \in pickRandomWithMaxDuration(progPlayTime, fillerPlayTime, clock, fChannel,
                       fChannel.fillers, R + (IF isFirst THEN SEVEN_DAYS ELSE 0)) :
           \E item \in OfflineLineup(R, rr, fChannel, isFirst) :
             /\ item \in createLineup(progPlayTime, fillerPlayTime, clock,
                                      [program |-> Offline(R), timeElapsed |-> 0],
                                      fChannel, fChannel.fillers, isFirst)
             /\ lastPick' = Some([at |-> clock, R |-> R, isFirst |-> isFirst,
                                  result |-> rr, item |-> item,
                                  before |-> [k \in ProgramKeys |-> progPlayTime[<<fChannel.id, k>>]],
                                  beforeFiller |-> [k \in FillerIds |->
                                                      fillerPlayTime[<<fChannel.id, k>>]]])
             \* recordPlayback(channel, t0, lineupItem)
             /\ progPlayTime' = RecordedPlayTimes(progPlayTime, fChannel.id, clock, item)
             /\ fillerPlayTime' = RecordedFillerTimes(fillerPlayTime, fChannel.id, clock, item)
             /\ cacheItems' = RecordedItems(cacheItems, fChannel.id, clock, item)
    /\ picks' = picks + 1
    /\ UNCHANGED <<clock, fChannel, ticks>>
    /\ UNCHANGED notFiller

PickFiller == PickFillerFor(GapChoices)

FillerNext == Tick \/ PickFiller

SpecFiller == FillerInit /\ [][FillerNext]_vars

(***************************************************************************)
(* The picker on channels whose repeat cooldown is short: a clip played at *)
(* the very time of the next pick is then off its cooldown.                *)
(***************************************************************************)
G1 == Collection("F1", 1, 0, <<Clip("a", 30000)>>)
G2 == Collection("F2", 2, 0, <<Clip("c", 15000)>>)

AttributionChannels ==
    {[id |-> "X", fillerRepeatCooldown |-> cd, offlineMode |-> "pic", fallback |-> <<>>,
      fillers |-> fs]
     : cd \in {Some(0), Some(20000), None},
       fs \in {<<G1>>, <<G1, G2>>, <<G2, G1>>, <<F1, F2>>}}

AttributionGaps == {25000, 300000}

AttributionInit ==
    /\ EncoderFresh
    /\ resChannel = MkChannel("X", 0, <<60000>>)
    /\ resDate = 0
    /\ resOut = None
    /\ resLater = None
    /\ resItem = None
    /\ CacheEmpty
    /\ clock = 1
    /\ fChannel \in AttributionChannels
    /\ lastPick = None
    /\ ticks = 0
    /\ picks = 0
    /\ StreamIdle
    /\ RouteFresh
    /\ ConcurrentIdle
    /\ SessionIdle
    /\ ConcatIdle
    /\ PlanIdle

AttributionPick == PickFillerFor(AttributionGaps)

AttributionNext == Tick \/ AttributionPick

SpecAttribution == AttributionInit /\ [][AttributionNext]_vars

(***************************************************************************)
(* VideoStream.startStream.  The function is async; its steps are the      *)
(* stretches between the places the claims look at: validation, the first  *)
(* resolve, each iteration of the redirect loop, the selection of the      *)
(* item, the upper bounds, the channel's record, the throttle and the      *)
(* player.  channelCache, the throttler and ProgramPlayer are collaborators *)
(* whose answers are inputs of the step that asks them.                    *)
(***************************************************************************)
MAXIMUM_OFFLINE_ERROR_MS == 60000
LOADING_MS == 40
\* Number.MAX_SAFE_INTEGER; the model's integers are 32 bits wide, and the
\* value only has to exceed every duration.
MAX_SAFE_INTEGER == 2147483647
\* 365 * 24 * 60 * 60 * 1000 does not fit 32 bits either; the stand-in
\* exceeds every other duration, also with the first-join week added.
YEAR_MS == 1500000000

RecursiveError(ids) == Some([text |-> "Recursive channel redirect found: ", ids |-> ids])
MissingError == Some([text |-> "Invalid redirect to a channel that doesn't exist", ids |-> <<>>])
ThrottleError == Some([text |-> "Too many attempts, throttling", ids |-> <<>>])

createOfflineStreamLineupIteam(d) == Offline(d)

\* Mutant: the cycle's item without the list of channels.
CycleItem_noIds(ids) ==
    StreamItem("offline", "none", 0, None, MAXIMUM_OFFLINE_ERROR_MS, None, None,
               RecursiveError(<<>>))

\* The item recorded when the redirect's target is already in redirectChannels.
CycleItem(ids) ==
    StreamItem("offline", "none", 0, None, MAXIMUM_OFFLINE_ERROR_MS, None, None,
               RecursiveError(ids))

ThrottleItem ==
    StreamItem("offline", "none", 0, None, MAXIMUM_OFFLINE_ERROR_MS, None, None, ThrottleError)

LoadingItem == StreamItem("loading", "none", 0, Some(LOADING_MS), LOADING_MS, None, None, None)

\* channelCache.getCurrentLineupItem(channelId, t1): the item last recorded
\* for the channel, moved on by the time since its record, while that item
\* still has time left; undefined otherwise.
getCurrentLineupItem(ci, channelId, t1) ==
    IF ci[channelId] = None THEN None
    ELSE LET rec == ci[channelId][1]
             diff == t1 - rec.t0
             aged == [rec.item EXCEPT
                        !.start = @ + diff,
                        !.streamDuration = IF @ = None THEN None ELSE Some(@[1] - diff)]
         IN IF diff >= 0 /\ rec.item.start + diff < rec.item.duration
            THEN Some(aged) ELSE None

\* Mutant: the re-entry leaves the records of the visited channels in place.
clearPlayback_keeps(ci, ids) == ci

\* channelCache.clearPlayback for every channel of a list.
clearPlayback(ci, ids) ==
    [c \in ChannelIds |-> IF \E i \in 1..Len(ids) : ids[i] = c THEN None ELSE ci[c]]

Includes(ids, id) == \E i \in 1..Len(ids) : ids[i] = id

ErrorResult(status) == Some([type |-> "error", httpStatus |-> status])
SuccessResult == Some([type |-> "success", httpStatus |-> 0])
\* A rejected promise: getCurrentProgramAndTimeElapsed threw.
Rejected == Some([type |-> "rejected", httpStatus |-> 0])

\* Mutant: the encoder executable checked before the channel.
Validate_ffmpegFirst ==
    /\ pc = "start"
    /\ IF ~ffmpegOk
       THEN /\ result' = ErrorResult(500) /\ pc' = "done"
            /\ UNCHANGED <<isLoading, firstJoin, lineupItem, channelContext>>
       ELSE IF req.channel = None
       THEN /\ result' = ErrorResult(400) /\ pc' = "done"
            /\ UNCHANGED <<isLoading, firstJoin, lineupItem, channelContext>>
       ELSE IF channels[req.channel[1]] = None
       THEN /\ result' = ErrorResult(404) /\ pc' = "done"
            /\ UNCHANGED <<isLoading, firstJoin, lineupItem, channelContext>>
       ELSE /\ isLoading' = (req.first = Some(0))
            /\ firstJoin' = (req.first = Some(1))
            /\ lineupItem' = IF req.first = Some(0) THEN Some(LoadingItem) ELSE None
            /\ channelContext' = req.channel[1]
            /\ pc' = "resolve"
            /\ UNCHANGED result
    /\ UNCHANGED <<startTimestamp, allowSkip, currentProgram, redirectChannels, upperBounds,
                   resolvedItem, cycleFound, throttled, playThrew, handed>>
    /\ UNCHANGED <<cacheVars, notStream>>

\* Mutant: no request is a loading request.
IsLoadingRequest_never(first) == FALSE

\* Lines 88-91: req.first === 0.
IsLoadingRequest(first) == first = Some(0)

\* Lines 57-122.
Validate ==
    /\ pc = "start"
    /\ IF req.channel = None
       THEN /\ result' = ErrorResult(400) /\ pc' = "done"
            /\ UNCHANGED <<isLoading, firstJoin, lineupItem, channelContext>>
       ELSE IF channels[req.channel[1]] = None
       THEN /\ result' = ErrorResult(404) /\ pc' = "done"
            /\ UNCHANGED <<isLoading, firstJoin, lineupItem, channelContext>>
       ELSE IF ~ffmpegOk
       THEN /\ result' = ErrorResult(500) /\ pc' = "done"
            /\ UNCHANGED <<isLoading, firstJoin, lineupItem, channelContext>>
       ELSE /\ isLoading' = IsLoadingRequest(req.first)
            /\ firstJoin' = (req.first = Some(1))
            /\ lineupItem' = IF IsLoadingRequest(req.first) THEN Some(LoadingItem)
                             ELSE None
            /\ channelContext' = req.channel[1]
            /\ pc' = "resolve"
            /\ UNCHANGED result
    /\ UNCHANGED <<startTimestamp, allowSkip, currentProgram, redirectChannels, upperBounds,
                   resolvedItem, cycleFound, throttled, playThrew, handed>>
    /\ UNCHANGED <<cacheVars, notStream>>

\* Lines 137-143.
ResolveFirst ==
    /\ pc = "resolve"
    /\ IF lineupItem # None
       THEN pc' = "select" /\ UNCHANGED <<currentProgram, result>>
       ELSE LET r == getCurrentProgramAndTimeElapsed(startTimestamp, channels[req.channel[1]][1])
            IN IF r.threw
               THEN result' = Rejected /\ pc' = "done" /\ UNCHANGED currentProgram
               ELSE currentProgram' = Some(r) /\ pc' = "walk" /\ UNCHANGED result
    /\ UNCHANGED <<startTimestamp, allowSkip, isLoading, firstJoin, channelContext,
                   redirectChannels, upperBounds, lineupItem, resolvedItem, cycleFound,
                   throttled, playThrew, handed>>
    /\ UNCHANGED <<cacheVars, notStream>>

\* Mutant: the stand-in of a missing channel with a lineup index.
MissingRedirectProgram_indexed ==
    [program |-> [createOfflineStreamLineupIteam(MAXIMUM_OFFLINE_ERROR_MS)
                    EXCEPT !.error = MissingError],
     timeElapsed |-> 0, programIndex |-> 0, threw |-> FALSE]

\* Lines 175-182: what stands for the program of a channel that cannot be
\* loaded.
MissingRedirectProgram ==
    [program |-> [createOfflineStreamLineupIteam(MAXIMUM_OFFLINE_ERROR_MS)
                    EXCEPT !.error = MissingError],
     timeElapsed |-> 0, programIndex |-> -1, threw |-> FALSE]

\* One iteration of the loop of lines 145-201.
RedirectHop ==
    /\ pc = "walk"
    /\ currentProgram # None
    /\ currentProgram[1].program.type = "redirect"
    /\ Len(redirectChannels) < MaxHops
    /\ LET cp == currentProgram[1]
           nextChannelId == cp.program.channel
           pushed == Append(redirectChannels, channelContext)
           found == Includes(pushed, nextChannelId)
           ci == IF found
                 THEN RecordedItems(cacheItems, channelContext, startTimestamp, CycleItem(pushed))
                 ELSE cacheItems
       IN /\ redirectChannels' = pushed
          /\ upperBounds' = Append(upperBounds, cp.program.duration - cp.timeElapsed)
          /\ cycleFound' = (cycleFound \/ found)
          /\ cacheItems' = ci
          /\ IF channels[nextChannelId] = None
             THEN /\ currentProgram' = Some(MissingRedirectProgram)
                  /\ UNCHANGED <<channelContext, lineupItem, pc, result>>
             ELSE /\ channelContext' = nextChannelId
                  /\ LET hit == getCurrentLineupItem(ci, nextChannelId, startTimestamp) IN
                       IF hit # None
                       THEN /\ lineupItem' = hit
                            /\ pc' = "select"
                            /\ UNCHANGED <<currentProgram, result>>
                       ELSE LET r == getCurrentProgramAndTimeElapsed(startTimestamp,
                                                                 channels[nextChannelId][1])
                            IN /\ UNCHANGED lineupItem
                               /\ IF r.threw
                                  THEN result' = Rejected /\ pc' = "done"
                                       /\ UNCHANGED currentProgram
                                  ELSE currentProgram' = Some(r)
                                       /\ UNCHANGED <<pc, result>>
    /\ UNCHANGED <<startTimestamp, allowSkip, isLoading, firstJoin, resolvedItem, throttled,
                   playThrew, handed>>
    /\ UNCHANGED <<clock, progPlayTime, fillerPlayTime, notStream>>

\* The loop's condition fails: the current program is no redirect.
WalkDone ==
    /\ pc = "walk"
    /\ currentProgram # None
    /\ currentProgram[1].program.type # "redirect"
    /\ pc' = "select"
    /\ UNCHANGED <<startTimestamp, allowSkip, isLoading, firstJoin, currentProgram,
                   channelContext, redirectChannels, upperBounds, lineupItem, resolvedItem,
                   cycleFound, throttled, playThrew, handed, result>>
    /\ UNCHANGED <<cacheVars, notStream>>

\* Mutant: no channel is taken for permanently offline.
PermanentlyOffline_never(cp, lineup) == FALSE

\* Lines 213-217: the resolved program is offline, the lineup of the channel
\* asked for has one item, and the program is not the flex before the start.
PermanentlyOffline(cp, lineup) ==
    /\ cp.program.type = "offline"
    /\ Len(lineup) = 1
    /\ cp.programIndex # -1

\* Lines 204-257.
Select ==
    /\ pc = "select"
    /\ IF lineupItem # None
       THEN /\ pc' = "adjust"
            /\ UNCHANGED <<startTimestamp, allowSkip, currentProgram, redirectChannels,
                           upperBounds, lineupItem, cycleFound, result, cacheItems>>
       ELSE IF currentProgram = None
       THEN /\ result' = ErrorResult(500) /\ pc' = "done"
            /\ UNCHANGED <<startTimestamp, allowSkip, currentProgram, redirectChannels,
                           upperBounds, lineupItem, cycleFound, cacheItems>>
       ELSE LET cp == currentProgram[1]
                remaining == cp.program.duration - cp.timeElapsed
            IN IF PermanentlyOffline(cp, channels[req.channel[1]][1].programs)
               THEN LET longer == [cp EXCEPT !.program = createOfflineStreamLineupIteam(YEAR_MS)]
                    IN /\ currentProgram' = Some(longer)
                       /\ \E item \in createLineup(progPlayTime, fillerPlayTime, clock, longer,
                                                   channels[channelContext][1],
                                                   channels[channelContext][1].fillers, firstJoin) :
                            lineupItem' = Some(item)
                       /\ pc' = "adjust"
                       /\ UNCHANGED <<startTimestamp, allowSkip, redirectChannels, upperBounds,
                                      cycleFound, result, cacheItems>>
               ELSE IF allowSkip /\ cp.program.type = "offline" /\ remaining <= SLACK + 1
               THEN \* return await this.startStream(req, startTimestamp + dt + 1, false)
                    /\ cacheItems' = clearPlayback(cacheItems, redirectChannels)
                    /\ startTimestamp' = startTimestamp + remaining + 1
                    /\ allowSkip' = FALSE
                    /\ currentProgram' = None
                    /\ redirectChannels' = <<>>
                    /\ upperBounds' = <<>>
                    /\ cycleFound' = FALSE
                    /\ pc' = "start"
                    /\ UNCHANGED <<lineupItem, result>>
               ELSE /\ \E item \in createLineup(progPlayTime, fillerPlayTime, clock, cp,
                                                channels[channelContext][1],
                                                channels[channelContext][1].fillers, firstJoin) :
                         lineupItem' = Some(item)
                    /\ pc' = "adjust"
                    /\ UNCHANGED <<startTimestamp, allowSkip, currentProgram, redirectChannels,
                                   upperBounds, cycleFound, result, cacheItems>>
    /\ UNCHANGED <<isLoading, firstJoin, channelContext, resolvedItem, throttled, playThrew,
                   handed>>
    /\ UNCHANGED <<clock, progPlayTime, fillerPlayTime, notStream>>

\* Mutant: the hop's bound taken without the beginning offset.
NewDuration_noOffset(thisUpperBound, beginningOffset, upperBound, streamDuration) ==
    Min(thisUpperBound,
        IF streamDuration = None THEN upperBound ELSE Min(upperBound, streamDuration[1]))

\* Lines 268-272.
NewDuration(thisUpperBound, beginningOffset, upperBound, streamDuration) ==
    Min(thisUpperBound + beginningOffset,
        IF streamDuration = None THEN upperBound ELSE Min(upperBound, streamDuration[1]))

RECURSIVE AdjustLoop(_, _, _, _, _)
\* The loop of lines 264-286 from index i down; st carries lineupItem,
\* upperBound and the cache.
AdjustLoop(st, i, channelIds, bounds, t0) ==
    IF i = 0 THEN st
    ELSE LET newDuration == NewDuration(bounds[i],
                                IF st.first.beginningOffset = None THEN 0
                                ELSE st.first.beginningOffset[1],
                                st.upperBound, st.item.streamDuration)
             item == [st.item EXCEPT !.streamDuration = Some(newDuration)]
         IN AdjustLoop([first |-> st.first, item |-> item, upperBound |-> newDuration,
                        ppt |-> RecordedPlayTimes(st.ppt, channelIds[i], t0, item),
                        fpt |-> RecordedFillerTimes(st.fpt, channelIds[i], t0, item),
                        ci |-> RecordedItems(st.ci, channelIds[i], t0, item)],
                       i - 1, channelIds, bounds, t0)

\* Lines 259-287.
Adjust ==
    /\ pc = "adjust"
    /\ lineupItem # None
    /\ resolvedItem' = lineupItem
    /\ IF ~isLoading
       THEN LET out == AdjustLoop([first |-> lineupItem[1], item |-> lineupItem[1],
                                   upperBound |-> MAX_SAFE_INTEGER,
                                   ppt |-> progPlayTime, fpt |-> fillerPlayTime,
                                   ci |-> cacheItems],
                                  Len(redirectChannels), redirectChannels, upperBounds,
                                  startTimestamp)
            IN /\ lineupItem' = Some(out.item)
               /\ progPlayTime' = out.ppt
               /\ fillerPlayTime' = out.fpt
               /\ cacheItems' = out.ci
       ELSE UNCHANGED <<lineupItem, progPlayTime, fillerPlayTime, cacheItems>>
    /\ pc' = "record"
    /\ UNCHANGED <<startTimestamp, allowSkip, isLoading, firstJoin, currentProgram,
                   channelContext, redirectChannels, upperBounds, cycleFound, throttled,
                   playThrew, handed, result>>
    /\ UNCHANGED <<clock, notStream>>

\* Lines 304-310.
Record ==
    /\ pc = "record"
    /\ IF ~isLoading
       THEN /\ progPlayTime' = RecordedPlayTimes(progPlayTime, req.channel[1],
                                                 startTimestamp, lineupItem[1])
            /\ fillerPlayTime' = RecordedFillerTimes(fillerPlayTime, req.channel[1],
                                                     startTimestamp, lineupItem[1])
            /\ cacheItems' = RecordedItems(cacheItems, req.channel[1], startTimestamp,
                                           lineupItem[1])
       ELSE UNCHANGED <<progPlayTime, fillerPlayTime, cacheItems>>
    /\ pc' = "throttle"
    /\ UNCHANGED <<startTimestamp, allowSkip, isLoading, firstJoin, currentProgram,
                   channelContext, redirectChannels, upperBounds, lineupItem, resolvedItem,
                   cycleFound, throttled, playThrew, handed, result>>
    /\ UNCHANGED <<clock, notStream>>

\* Mutant: the throttle leaves the loading item alone.
Throttle_keepsLoading ==
    /\ pc = "throttle"
    /\ \E tooMany \in BOOLEAN :
         /\ throttled' = tooMany
         /\ lineupItem' = IF tooMany /\ ~isLoading THEN Some(ThrottleItem) ELSE lineupItem
    /\ pc' = "play"
    /\ UNCHANGED <<startTimestamp, allowSkip, isLoading, firstJoin, currentProgram,
                   channelContext, redirectChannels, upperBounds, resolvedItem, cycleFound,
                   playThrew, handed, result>>
    /\ UNCHANGED <<cacheVars, notStream>>

\* Lines 312-319; the throttler's answer is an input.
Throttle ==
    /\ pc = "throttle"
    /\ \E tooMany \in BOOLEAN :
         /\ throttled' = tooMany
         /\ lineupItem' = IF tooMany THEN Some(ThrottleItem) ELSE lineupItem
    /\ pc' = "play"
    /\ UNCHANGED <<startTimestamp, allowSkip, isLoading, firstJoin, currentProgram,
                   channelContext, redirectChannels, upperBounds, resolvedItem, cycleFound,
                   playThrew, handed, result>>
    /\ UNCHANGED <<cacheVars, notStream>>

\* Lines 321-385; whether player.play throws is an input.
Play ==
    /\ pc = "play"
    /\ handed' = lineupItem
    /\ \E threw \in BOOLEAN :
         /\ playThrew' = threw
         /\ result' = IF threw THEN ErrorResult(500) ELSE SuccessResult
    /\ pc' = "done"
    /\ UNCHANGED <<startTimestamp, allowSkip, isLoading, firstJoin, currentProgram,
                   channelContext, redirectChannels, upperBounds, lineupItem, resolvedItem,
                   cycleFound, throttled>>
    /\ UNCHANGED <<cacheVars, notStream>>

\* A channel of the store, its lineup starting at time 0.
StoredChannel(id, programs, fillers, offlineMode, fallback) ==
    Some([id |-> id, startTime |-> 0, programs |-> programs,
          duration |-> SumDurations(programs, Len(programs)),
          fillerRepeatCooldown |-> None, offlineMode |-> offlineMode,
          fallback |-> fallback, fillers |-> fillers])

Plain(id, programs) == StoredChannel(id, programs, <<>>, "pic", <<>>)

\* The channel with its start moved to startTime.
StartingAt(stored, startTime) == Some([stored[1] EXCEPT !.startTime = startTime])

Store(x, y, z) == [c \in ChannelIds |-> IF c = "X" THEN x ELSE IF c = "Y" THEN y ELSE z]

\* The stores the request runs against: cycles of one, two and three
\* channels, a cycle entered from outside, a chain ending in content, a
\* redirect to a missing channel, short offline gaps, a one-item flex lineup,
\* a redirect into a short offline gap, a short one-item flex lineup, alone,
\* behind a redirect and before its start.
\* One hour of content and five seconds of flex, looping.
ExampleStore == Store(Plain("X", <<Content("p", 3600000), Offline(5000)>>), None, None)

StreamStores ==
    { Store(Plain("X", <<Redirect("Y", 600000)>>),
            Plain("Y", <<Redirect("X", 600000)>>), None),
      Store(Plain("X", <<Redirect("X", 600000)>>), None, None),
      Store(Plain("X", <<Redirect("Y", 600000)>>),
            Plain("Y", <<Redirect("Z", 600000)>>),
            Plain("Z", <<Redirect("X", 600000)>>)),
      Store(Plain("X", <<Redirect("Y", 600000)>>),
            Plain("Y", <<Redirect("Z", 600000)>>),
            Plain("Z", <<Redirect("Y", 600000)>>)),
      Store(Plain("X", <<Redirect("Y", 40000), Content("p", 60000)>>),
            Plain("Y", <<Redirect("Z", 100000)>>),
            Plain("Z", <<Content("a", 120000)>>)),
      Store(Plain("X", <<Redirect("Y", 600000)>>), None,
            Plain("Z", <<Content("q", 60000), Redirect("X", 30000)>>)),
      Store(StoredChannel("X", <<Content("p", 60000), Offline(5000), Offline(25000)>>,
                          <<F1>>, "pic", <<>>),
            Plain("Y", <<Redirect("X", 100000)>>), None),
      Store(StoredChannel("X", <<Offline(60000)>>, <<>>, "clip", <<Clip("f", 50000)>>),
            Plain("Y", <<Redirect("X", 50000)>>),
            StoredChannel("Z", <<Offline(60000)>>, <<F1>>, "pic", <<>>)),
      Store(Plain("X", <<Content("p", 60000), Offline(5000), Offline(25000)>>),
            Plain("Y", <<Redirect("X", 100000), Content("q", 20000)>>), None),
      Store(Plain("X", <<Offline(5000)>>),
            Plain("Y", <<Redirect("X", 100000), Content("q", 20000)>>),
            StartingAt(Plain("Z", <<Offline(5000)>>), 100000)),
      ExampleStore }

StreamDates == {0, 20000, 45000, 61000, 80100, 3600001}

\* An item some earlier request played to its end.
PlayedOut == StreamItem("program", "q", 0, None, 500, None, None, None)

\* The playback cache a request finds: nothing yet, or the records earlier
\* requests left on every channel.
StreamCaches ==
    { [c \in ChannelIds |-> None],
      [c \in ChannelIds |-> Some([t0 |-> -1000, item |-> PlayedOut])] }

StreamInit ==
    /\ EncoderFresh
    /\ resChannel = MkChannel("X", 0, <<60000>>)
    /\ resDate = 0
    /\ resOut = None
    /\ resLater = None
    /\ resItem = None
    /\ FillerIdle
    /\ progPlayTime = [k \in ChannelIds \X ProgramKeys |-> 0]
    /\ fillerPlayTime = [k \in ChannelIds \X FillerIds |-> 0]
    /\ cacheItems \in StreamCaches
    /\ clock \in StreamDates
    /\ channels \in StreamStores
    /\ req \in [channel : {None} \cup {Some(c) : c \in ChannelIds}, first : {None, Some(0), Some(1)}]
    /\ ffmpegOk \in BOOLEAN
    \* the route: startStream(req, new Date().getTime(), true)
    /\ startTimestamp = clock
    /\ channelContext = "X"
    /\ StreamFresh
    /\ RouteFresh
    /\ ConcurrentIdle
    /\ SessionIdle
    /\ ConcatIdle
    /\ PlanIdle

Next ==
    \/ Validate
    \/ ResolveFirst
    \/ RedirectHop
    \/ WalkDone
    \/ Select
    \/ Adjust
    \/ Record
    \/ Throttle
    \/ Play

Spec == StreamInit /\ [][Next]_vars

(***************************************************************************)
(* GET /stream around a started player: the route awaits startStream,      *)
(* then registers the connection's close listener and sends the stream.    *)
(* The player owns one FFMPEG instance; the emitter player.play returns    *)
(* carries that instance's events, and player.cleanUp kills it.  A close   *)
(* of the connection is an event of its own: it runs the listeners         *)
(* registered at that moment, and none later.                              *)
(***************************************************************************)
\* Mutant: stop() without its flag.
Stop_unguarded(ch) ==
    /\ stopped' = TRUE
    /\ cleanUps' = cleanUps + 1
    /\ outEnded' = TRUE
    /\ outPushes' = outPushes + 1
    /\ hasBeenKilled' = TRUE
    /\ children' = IF ffmpeg # None THEN [ch EXCEPT ![ffmpeg[1]].sigkill = TRUE] ELSE ch

\* stop() of startStream, lines 342-350, on top of the children value ch the
\* triggering event leaves behind.
Stop(ch) ==
    /\ stopped' = TRUE
    /\ cleanUps' = IF stopped THEN cleanUps ELSE cleanUps + 1
    /\ outEnded' = (outEnded \/ ~stopped)
    /\ outPushes' = IF stopped THEN outPushes ELSE outPushes + 1
    /\ hasBeenKilled' = (hasBeenKilled \/ ~stopped)
    /\ children' = IF ~stopped /\ ffmpeg # None
                   THEN [ch EXCEPT ![ffmpeg[1]].sigkill = TRUE]
                   ELSE ch

\* startStream has returned success: player.play resolved with the encoder
\* running and the emitter's listeners are registered (lines 354-362); the
\* route registers the close listener and sends the stream.
RoutePlay ==
    /\ rPc = "starting"
    /\ pc = "done"
    /\ result = SuccessResult
    /\ ffmpeg' = Some(1)
    /\ children' = <<NewChild(TRUE, FALSE, FALSE)>>
    /\ closeListener' = TRUE
    /\ rPc' = "streaming"
    /\ UNCHANGED <<hasBeenKilled, sentData, prevented, connClosed, stopped, cleanUps, outEnded, outPushes>>
    /\ UNCHANGED notRoute

\* startStream has returned an error result: after stop() when player.play
\* threw (lines 363-372), without a player otherwise; the route sends it.
RouteError ==
    /\ rPc = "starting"
    /\ pc = "done"
    /\ result # SuccessResult
    /\ IF playThrew
       THEN Stop(children)
       ELSE UNCHANGED <<stopped, cleanUps, outEnded, outPushes, hasBeenKilled, children>>
    /\ rPc' = "failed"
    /\ UNCHANGED <<sentData, ffmpeg, prevented, connClosed, closeListener>>
    /\ UNCHANGED notRoute

\* The client's connection closes.
ClientClose ==
    /\ ~connClosed
    /\ connClosed' = TRUE
    /\ IF closeListener
       THEN Stop(children)
       ELSE UNCHANGED <<stopped, cleanUps, outEnded, outPushes, hasBeenKilled, children>>
    /\ UNCHANGED <<sentData, ffmpeg, prevented, closeListener, rPc>>
    /\ UNCHANGED notRoute

\* The encoder writes to its stdout.
RouteChildData ==
    /\ \E c \in DOMAIN children : ChildData(c)
    /\ UNCHANGED routeVars

\* The encoder exits; 'end' runs stop(), 'error' is logged (lines 355-362).
RouteChildExit ==
    \E c \in DOMAIN children, code \in ExitCodes :
        /\ children[c].state = "running"
        /\ LET events == IF children[c].handlers
                         THEN ExitEvents(code, hasBeenKilled, sentData) ELSE <<>>
               ch == [children EXCEPT ![c].state = "exited", ![c].code = code,
                                      ![c].events = events]
           IN IF \E k \in DOMAIN events : events[k] = "end"
              THEN Stop(ch)
              ELSE /\ children' = ch
                   /\ UNCHANGED <<stopped, cleanUps, outEnded, outPushes, hasBeenKilled>>
        /\ UNCHANGED <<sentData, ffmpeg, prevented, connClosed, closeListener, rPc>>
        /\ UNCHANGED notRoute

RouteInit == StreamInit

RouteNext ==
    \/ Validate
    \/ ResolveFirst
    \/ RedirectHop
    \/ WalkDone
    \/ Select
    \/ Adjust
    \/ Record
    \/ Throttle
    \/ Play
    \/ RoutePlay
    \/ RouteError
    \/ ClientClose
    \/ RouteChildData
    \/ RouteChildExit

SpecRoute == RouteInit /\ [][RouteNext]_vars

(***************************************************************************)
(* Several GET /stream requests on one channel.  Each takes its timestamp  *)
(* when the route is entered and then awaits the store, the resolver and   *)
(* the cache in turn; the event loop may run another request's             *)
(* continuation at every await, so the steps of different requests         *)
(* interleave freely.                                                      *)
(***************************************************************************)
ConcurrentChannel == Plain("X", <<Content("p", 60000), Offline(5000)>>)[1]

ConcurrentDates == {0, 20000, 59000, 61000, 63000, 66000}

\* The route is entered: startStream(req.query, new Date().getTime(), true).
Arrive(r) ==
    /\ inflight[r].pc = "idle"
    /\ inflight' = [inflight EXCEPT ![r] = [pc |-> "resolve", startTimestamp |-> clock,
                                            allowSkip |-> TRUE, item |-> None]]
    /\ UNCHANGED <<recorded, cacheVars, notConcurrent>>

\* Time passes between two events of the process.
Later ==
    /\ \E d \in ConcurrentDates : d > clock /\ clock' = d
    /\ UNCHANGED <<progPlayTime, fillerPlayTime, cacheItems, concurrentVars, notConcurrent>>

\* Lines 137-257 for a request that is not the loading one and whose channel
\* has no redirect: resolve at startTimestamp, then either re-enter past a
\* short offline item or build the item to play.
ResolveRequest(r) ==
    /\ inflight[r].pc = "resolve"
    /\ LET q == inflight[r]
           cp == getCurrentProgramAndTimeElapsed(q.startTimestamp, ConcurrentChannel)
           remaining == cp.program.duration - cp.timeElapsed
       IN IF q.allowSkip /\ cp.program.type = "offline" /\ remaining <= SLACK + 1
          THEN inflight' = [inflight EXCEPT
                              ![r].startTimestamp = q.startTimestamp + remaining + 1,
                              ![r].allowSkip = FALSE]
          ELSE \E item \in createLineup(progPlayTime, fillerPlayTime, clock, cp,
                                        ConcurrentChannel, ConcurrentChannel.fillers, FALSE) :
                 inflight' = [inflight EXCEPT ![r].item = Some(item), ![r].pc = "record"]
    /\ UNCHANGED <<recorded, cacheVars, notConcurrent>>

\* Lines 304-310: recordPlayback(channel.uuid, startTimestamp, lineupItem).
RecordRequest(r) ==
    /\ inflight[r].pc = "record"
    /\ LET q == inflight[r]
       IN /\ recorded' = Append(recorded, q.startTimestamp)
          /\ progPlayTime' = RecordedPlayTimes(progPlayTime, "X", q.startTimestamp, q.item[1])
          /\ fillerPlayTime' = RecordedFillerTimes(fillerPlayTime, "X", q.startTimestamp,
                                                   q.item[1])
          /\ cacheItems' = RecordedItems(cacheItems, "X", q.startTimestamp, q.item[1])
    /\ inflight' = [inflight EXCEPT ![r].pc = "done"]
    /\ UNCHANGED <<clock, notConcurrent>>

ConcurrentInit ==
    /\ EncoderFresh
    /\ CacheEmpty
    /\ clock \in ConcurrentDates
    /\ FillerIdle
    /\ StreamIdle
    /\ RouteFresh
    /\ ConcurrentIdle
    /\ SessionIdle
    /\ ConcatIdle
    /\ PlanIdle
    /\ resChannel = MkChannel("X", 0, <<60000>>)
    /\ resDate = 0
    /\ resOut = None
    /\ resLater = None
    /\ resItem = None

ConcurrentNext ==
    \/ \E r \in 1..MaxRequests : Arrive(r)
    \/ Later
    \/ \E r \in 1..MaxRequests : ResolveRequest(r)
    \/ \E r \in 1..MaxRequests : RecordRequest(r)

SpecConcurrent == ConcurrentInit /\ [][ConcurrentNext]_vars

(***************************************************************************)
(* GET /playlist and GET /m3u8.  Both take their session id from the       *)
(* module's StreamCount; each handler runs up to its next await in one     *)
(* step, and the handlers of different requests interleave at the awaits.  *)
(***************************************************************************)
\* The channel numbers channelDB.getChannel finds.
KnownChannels == {1}

PlaylistQueries ==
    { [channel |-> None, audioOnly |-> FALSE, hls |-> FALSE],
      [channel |-> Some(1), audioOnly |-> FALSE, hls |-> FALSE],
      [channel |-> Some(1), audioOnly |-> TRUE, hls |-> TRUE],
      [channel |-> Some(2), audioOnly |-> FALSE, hls |-> FALSE] }

M3u8Queries == {[channel |-> c, audioOnly |-> FALSE, hls |-> FALSE] : c \in {None, Some(1), Some(2)}}

TextResponse(status, body) == Some([status |-> status, body |-> body])

\* Mutant: the manifest with the loading entry in front.
Manifest_loadingFirst(channel, sessionId, audioOnly, hls) ==
    [header |-> "ffconcat version 1.0",
     files |-> [i \in 1..3 |-> [path |-> "/stream", channel |-> channel, session |-> sessionId,
                                audioOnly |-> audioOnly, hls |-> hls]]]

\* Lines 219-254: the header and the loop's two file lines.
Manifest(channel, sessionId, audioOnly, hls) ==
    [header |-> "ffconcat version 1.0",
     files |-> [i \in 1..2 |-> [path |-> "/stream", channel |-> channel, session |-> sessionId,
                                audioOnly |-> audioOnly, hls |-> hls]]]

\* Requests take the slots in order.
FreeSlot(r) ==
    /\ sessions[r].pc = "idle"
    /\ \A q \in 1..(r - 1) : sessions[q].pc # "idle"

\* GET /playlist up to the await of getChannel (lines 210-216).
PlaylistArrive(r) ==
    /\ FreeSlot(r)
    /\ \E q \in PlaylistQueries :
         sessions' = [sessions EXCEPT ![r] =
                        IF q.channel = None
                        THEN [route |-> "playlist", channel |-> q, pc |-> "done",
                              sessionId |-> None,
                              response |-> TextResponse(400, "No Channel Specified")]
                        ELSE [route |-> "playlist", channel |-> q, pc |-> "lookup",
                              sessionId |-> None, response |-> None]]
    /\ UNCHANGED <<StreamCount, issued, notSession>>

\* GET /playlist from getChannel's answer to the response (lines 216-257).
PlaylistBuild(r) ==
    /\ sessions[r].route = "playlist"
    /\ sessions[r].pc = "lookup"
    /\ LET q == sessions[r].channel IN
       IF q.channel[1] \notin KnownChannels
       THEN /\ sessions' = [sessions EXCEPT ![r].pc = "done",
                              ![r].response = TextResponse(404, "Channel doesn't exist")]
            /\ UNCHANGED <<StreamCount, issued>>
       ELSE LET sessionId == StreamCount IN
            /\ StreamCount' = StreamCount + 1
            /\ issued' = Append(issued, sessionId)
            /\ sessions' = [sessions EXCEPT ![r].pc = "done",
                              ![r].sessionId = Some(sessionId),
                              ![r].response = TextResponse(200,
                                  Manifest(q.channel[1], sessionId, q.audioOnly, q.hls))]
    /\ UNCHANGED notSession

\* GET /m3u8 up to the await of getChannel (lines 173-181).
M3u8Arrive(r) ==
    /\ FreeSlot(r)
    /\ \E q \in M3u8Queries :
         LET sessionId == StreamCount IN
         /\ StreamCount' = StreamCount + 1
         /\ issued' = Append(issued, sessionId)
         /\ sessions' = [sessions EXCEPT ![r] =
                           IF q.channel = None
                           THEN [route |-> "m3u8", channel |-> q, pc |-> "done",
                                 sessionId |-> Some(sessionId),
                                 response |-> TextResponse(400, "No Channel Specified")]
                           ELSE [route |-> "m3u8", channel |-> q, pc |-> "lookup",
                                 sessionId |-> Some(sessionId), response |-> None]]
    /\ UNCHANGED notSession

\* GET /m3u8 from getChannel's answer to the await of buildChannelM3U
\* (lines 181-193).
M3u8Lookup(r) ==
    /\ sessions[r].route = "m3u8"
    /\ sessions[r].pc = "lookup"
    /\ sessions' = IF sessions[r].channel.channel[1] \notin KnownChannels
                   THEN [sessions EXCEPT ![r].pc = "done",
                           ![r].response = TextResponse(404, "Channel doesn't exist")]
                   ELSE [sessions EXCEPT ![r].pc = "build"]
    /\ UNCHANGED <<StreamCount, issued, notSession>>

\* GET /m3u8: the playlist buildChannelM3U made for the channel and the
\* session id is sent (lines 185-194).
M3u8Send(r) ==
    /\ sessions[r].route = "m3u8"
    /\ sessions[r].pc = "build"
    /\ sessions' = [sessions EXCEPT ![r].pc = "done",
                      ![r].response = TextResponse(200,
                          [channel |-> sessions[r].channel.channel[1],
                           session |-> sessions[r].sessionId[1]])]
    /\ UNCHANGED <<StreamCount, issued, notSession>>

SessionInit ==
    /\ EncoderFresh
    /\ CacheEmpty
    /\ clock = 1
    /\ FillerIdle
    /\ StreamIdle
    /\ RouteFresh
    /\ ConcurrentIdle
    /\ SessionIdle
    /\ ConcatIdle
    /\ PlanIdle
    /\ resChannel = MkChannel("X", 0, <<60000>>)
    /\ resDate = 0
    /\ resOut = None
    /\ resLater = None
    /\ resItem = None

SessionNext ==
    \/ \E r \in 1..MaxSessions : PlaylistArrive(r)
    \/ \E r \in 1..MaxSessions : PlaylistBuild(r)
    \/ \E r \in 1..MaxSessions : M3u8Arrive(r)
    \/ \E r \in 1..MaxSessions : M3u8Lookup(r)
    \/ \E r \in 1..MaxSessions : M3u8Send(r)

SpecSession == SessionInit /\ [][SessionNext]_vars

(***************************************************************************)
(* GET /video and GET /radio.  The handler awaits ConcatStream.startStream *)
(* and then answers on the Fastify reply; the client may close the         *)
(* connection before or after the answer.                                  *)
(***************************************************************************)
\* What a handler hands to reply.send: a number, a string or a stream.
NumberPayload(n) == [kind |-> "number", n |-> n, s |-> ""]
StringPayload(s) == [kind |-> "string", n |-> 0, s |-> s]
StreamPayload == [kind |-> "stream", n |-> 0, s |-> ""]

\* A Fastify reply nothing was called on; the status code starts as 200.
FreshReply == [statusCode |-> 200, sent |-> FALSE, body |-> None, contentType |-> None]

\* reply.header('Content-Type', value)
ReplyHeader(reply, value) == [reply EXCEPT !.contentType = Some(value)]

\* reply.send(payload): the first send answers the request, a send on a
\* reply already sent is dropped.
ReplySend(reply, payload) ==
    IF reply.sent THEN reply
    ELSE [reply EXCEPT !.sent = TRUE, !.body = Some(payload)]

\* The channels ConcatStream.startStream finds.
ConcatKnown == {1}

\* The query's channel: the schema of both routes requires it.
ConcatQueries == {1, 9}

\* The results of ConcatStream.startStream(channel, audioOnly).
StartStreamResults(channel) ==
    IF channel \notin ConcatKnown
    THEN {[type |-> "error", httpStatus |-> 404, message |-> "Channel doesn't exist"]}
    ELSE {[type |-> "success", httpStatus |-> 0, message |-> ""],
          [type |-> "error", httpStatus |-> 500, message |-> "FFMPEG path is invalid"]}

\* GET /video (lines 79-83) and GET /radio (lines 105-109) up to the await:
\* both hand false to startStream as its second argument.
ConcatArrive(route, channel) ==
    /\ Len(concat) < MaxConcat
    /\ concat' = Append(concat,
                   [route |-> route, channel |-> channel, audioOnly |-> FALSE,
                    pc |-> "awaiting", result |-> None, reply |-> FreshReply,
                    closeListener |-> FALSE, closed |-> FALSE, stops |-> 0])
    /\ UNCHANGED notConcat

\* The rest of the handler (lines 84-92, 110-118), from startStream's result.
ConcatAnswer(i) ==
    /\ concat[i].pc = "awaiting"
    /\ \E r \in StartStreamResults(concat[i].channel) :
         concat' = [concat EXCEPT ![i] =
            IF r.type = "error"
            THEN [@ EXCEPT !.pc = "answered", !.result = Some(r),
                           !.reply = ReplySend(ReplySend(@, NumberPayload(r.httpStatus)),
                                               StringPayload(r.message))]
            ELSE [@ EXCEPT !.pc = "answered", !.result = Some(r),
                           !.closeListener = TRUE,
                           !.reply = ReplySend(ReplyHeader(@, "video/mp2t"), StreamPayload)]]
    /\ UNCHANGED notConcat

\* The client's connection closes; the close listener calls result.stop().
ConcatClose(i) ==
    /\ ~concat[i].closed
    /\ concat' = [concat EXCEPT ![i].closed = TRUE,
                                ![i].stops = IF concat[i].closeListener THEN @ + 1 ELSE @]
    /\ UNCHANGED notConcat

ConcatInit ==
    /\ EncoderFresh
    /\ CacheEmpty
    /\ clock = 1
    /\ FillerIdle
    /\ StreamIdle
    /\ RouteFresh
    /\ ConcurrentIdle
    /\ SessionIdle
    /\ PlanIdle
    /\ concat = <<>>
    /\ resChannel = MkChannel("X", 0, <<60000>>)
    /\ resDate = 0
    /\ resOut = None
    /\ resLater = None
    /\ resItem = None

ConcatNext ==
    \/ \E route \in {"video", "radio"}, channel \in ConcatQueries : ConcatArrive(route, channel)
    \/ \E i \in DOMAIN concat : ConcatAnswer(i)
    \/ \E i \in DOMAIN concat : ConcatClose(i)

SpecConcat == ConcatInit /\ [][ConcatNext]_vars

(***************************************************************************)
(* FFMPEG.spawn as a builder of argument lists.  An argument is kept as    *)
(* its fixed text with the numbers and the strings set into it; the        *)
(* filters of -filter_complex follow that flag one by one.                 *)
(***************************************************************************)
Tok(t, n, s) == [t |-> t, n |-> n, s |-> s, uses |-> {}, makes |-> {}]
\* A filter of the graph: the pad labels it reads and the one it writes.
Filter(t, n, s, uses, makes) == [t |-> t, n |-> n, s |-> s, uses |-> uses, makes |-> makes]
\* The operand of -map when it is a pad label of the graph.
MapLabel(label) == [t |-> "", n |-> <<>>, s |-> <<label>>, uses |-> {label}, makes |-> {}]
Flag(t) == Tok(t, <<>>, <<>>)
Num(k) == Tok("", <<k>>, <<>>)
Str(x) == Tok("", <<>>, <<x>>)
\* The ';' every piece of videoComplex and audioComplex begins with.
Semi == Flag(";")

MAXIMUM_ERROR_DURATION_MS == 60000
STILLIMAGE_SUPPORTED_ENCODERS == {"mpeg2video", "libx264", "h264_videotoolbox"}
errorPicturePath == "/images/generic-error-screen.png"
defaultOfflinePic == "/images/generic-offline-screen.png"

\* encoder.includes(part), for the encoders of the model.
EncoderIncludes(encoder, part) ==
    \/ encoder = "libx264" /\ part = "264"
    \/ encoder = "mpeg2video" /\ part = "mpeg2"
    \/ encoder = "aac" /\ part = "aac"
    \/ encoder = "ac3" /\ part = "ac3"

isDifferentVideoCodec(codec, encoder) ==
    IF codec = "mpeg2video" THEN ~EncoderIncludes(encoder, "mpeg2")
    ELSE IF codec = "h264" THEN ~EncoderIncludes(encoder, "264")
    ELSE IF codec = "hevc"
    THEN ~(EncoderIncludes(encoder, "265") \/ EncoderIncludes(encoder, "hevc"))
    ELSE TRUE

isDifferentAudioCodec(codec, encoder) ==
    IF codec = "mp3" THEN ~(EncoderIncludes(encoder, "mp3") \/ EncoderIncludes(encoder, "lame"))
    ELSE IF codec = "aac" THEN ~EncoderIncludes(encoder, "aac")
    ELSE IF codec = "ac3" THEN ~EncoderIncludes(encoder, "ac3")
    ELSE IF codec = "flac" THEN ~EncoderIncludes(encoder, "flac")
    ELSE TRUE

isLargerResolution(w1, h1, w2, h2) == w1 > w2 \/ h1 > h2 \/ w1 % 2 = 1 \/ h1 % 2 = 1

RECURSIVE gcd(_, _)
gcd(a, b) == IF b = 0 THEN a ELSE gcd(b, a % b)

\* The constructor, lines 99-155: the fields spawn reads and writes.
Constructed(opts0, channel) ==
    LET opts1 == IF ~opts0.enableTranscoding
                 THEN [opts0 EXCEPT !.normalizeAudio = FALSE, !.normalizeAudioCodec = FALSE,
                                    !.normalizeVideoCodec = FALSE, !.errorScreen = "kill",
                                    !.normalizeResolution = FALSE, !.audioVolumePercent = 100,
                                    !.maxFPS = 120]
                 ELSE opts0
        targetResolution == IF channel.transcoding.targetResolution # None
                            THEN channel.transcoding.targetResolution[1]
                            ELSE opts0.targetResolution
        opts2 == IF channel.transcoding.videoBitrate # None
                    /\ channel.transcoding.videoBitrate[1] # 0
                 THEN [opts1 EXCEPT !.videoBitrate = channel.transcoding.videoBitrate[1]]
                 ELSE opts1
        opts == IF channel.transcoding.videoBufferSize # None
                   /\ channel.transcoding.videoBufferSize[1] # 0
                THEN [opts2 EXCEPT !.videoBufferSize = channel.transcoding.videoBufferSize[1]]
                ELSE opts2
    IN [opts |-> opts, channel |-> channel, audioOnly |-> FALSE,
        wantedW |-> targetResolution.widthPx, wantedH |-> targetResolution.heightPx,
        apad |-> opts.normalizeAudio, audioChannelsSampleRate |-> opts.normalizeAudio,
        ensureResolution |-> opts.normalizeResolution,
        volumePercent |-> opts.audioVolumePercent]

StreamUrl(url) == [isString |-> TRUE, url |-> url, errorTitle |-> "", subtitle |-> None]
ErrorTitle(title, subtitle) ==
    [isString |-> FALSE, url |-> "", errorTitle |-> title, subtitle |-> subtitle]

SpawnInput(streamUrl, streamStats, startTime, duration, limitRead, watermark) ==
    [streamUrl |-> streamUrl, streamStats |-> streamStats, startTime |-> startTime,
     duration |-> duration, limitRead |-> limitRead, watermark |-> watermark]

\* Lines 350-401: the first arguments, the input, the two filter chains.
PlanOpen(f, x) ==
    LET a0 == <<Flag("-threads"), Num(f.opts.numThreads), Flag("-fflags"),
                Flag("+genpts+discardcorrupt+igndts")>>
        a1 == IF x.limitRead /\ (~f.audioOnly \/ x.streamUrl.isString)
              THEN Append(a0, Flag("-re")) ELSE a0
        a2 == IF x.startTime # None THEN a1 \o <<Flag("-ss"), Num(x.startTime[1])>> ELSE a1
        hasInput == x.streamUrl.isString /\ x.streamUrl.url # ""
        videoFile == IF hasInput THEN 0 ELSE -1
    IN [f |-> f,
        args |-> IF hasInput THEN a2 \o <<Flag("-i"), Str(x.streamUrl.url)>> ELSE a2,
        inputFiles |-> IF hasInput THEN 1 ELSE 0,
        audioFile |-> videoFile, videoFile |-> videoFile, overlayFile |-> -1,
        doOverlay |-> x.watermark # None,
        iW |-> x.streamStats.videoWidth, iH |-> x.streamStats.videoHeight,
        currentVideo |-> "[video]", currentAudio |-> "[audio]",
        audioComplex |-> <<Semi, Filter("[:]anull[audio]", <<videoFile, x.streamStats.audioIndex>>,
                                        <<>>, {}, {"[audio]"})>>,
        videoComplex |-> <<Semi, Filter("[:v]null[video]", <<videoFile>>, <<>>, {}, {"[video]"})>>,
        useStillImageTune |-> FALSE, duration |-> x.duration,
        beforeSizeChange |-> "[video]"]

\* Lines 412-424: the frame rate cap and the deinterlacer.
PlanRate(st, x) ==
    LET s1 == IF x.streamStats.videoFramerate > st.f.opts.maxFPS
              THEN [st EXCEPT !.videoComplex = @ \o <<Semi, Filter("fps=[fpchange]",
                                                   <<st.f.opts.maxFPS>>, <<st.currentVideo>>,
                                                   {st.currentVideo}, {"[fpchange]"})>>,
                              !.currentVideo = "[fpchange]"]
              ELSE st
    IN IF x.streamStats.videoScanType = "interlaced" /\ s1.f.opts.deinterlaceFilter # "none"
       THEN [s1 EXCEPT !.videoComplex = @ \o <<Semi, Filter("[deinterlaced]", <<>>,
                                            <<s1.currentVideo, s1.f.opts.deinterlaceFilter>>,
                                            {s1.currentVideo}, {"[deinterlaced]"})>>,
                       !.currentVideo = "[deinterlaced]"]
       ELSE s1

\* Lines 437-505: the picture of a generated stream.
PlanPicture(st, x) ==
    LET f == st.f
        a0 == st.args \o <<Flag("-r"), Flag("24")>>
        pic == IF x.streamUrl.isString /\ x.streamStats.audioOnly
               THEN x.streamStats.placeholderImage
               ELSE IF ~x.streamUrl.isString /\ x.streamUrl.errorTitle = "offline"
               THEN IF f.channel.offlinePicture # None THEN f.channel.offlinePicture
                    ELSE Some(defaultOfflinePic)
               ELSE IF f.opts.errorScreen = "pic" THEN Some(errorPicturePath)
               ELSE None
        size == <<st.iW, st.iH>>
    IN IF pic # None /\ pic[1] # ""
       THEN [st EXCEPT
               !.args = a0 \o <<Flag("-i"), Str(pic[1])>>,
               !.duration = IF st.duration = None /\ x.streamStats.duration # None
                            THEN Some(x.streamStats.duration[1] + 150) ELSE st.duration,
               !.inputFiles = @ + 1,
               !.videoComplex =
                   <<Semi, Filter("[:0]format=yuv420p[formatted]", <<st.inputFiles>>, <<>>,
                                  {}, {"[formatted]"}),
                     Semi, Filter("[formatted]scale=w=:h=:force_original_aspect_ratio=1[scaled]",
                                  size, <<>>, {"[formatted]"}, {"[scaled]"}),
                     Semi, Filter("[scaled]pad=::(ow-iw)/2:(oh-ih)/2[padded]", size, <<>>,
                                  {"[scaled]"}, {"[padded]"}),
                     Semi, Filter("[padded]loop=loop=-1:size=1:start=0[looped]", <<>>, <<>>,
                                  {"[padded]"}, {"[looped]"}),
                     Semi, Filter("[looped]realtime[videox]", <<>>, <<>>,
                                  {"[looped]"}, {"[videox]"})>>,
               !.useStillImageTune = (f.opts.videoEncoder \in STILLIMAGE_SUPPORTED_ENCODERS)]
       ELSE IF f.opts.errorScreen = "static"
       THEN [st EXCEPT
               !.args = a0 \o <<Flag("-f"), Flag("lavfi"), Flag("-i"), Flag("nullsrc=s=64x36")>>,
               !.videoComplex =
                   <<Semi, Filter("geq=random(1)*255:128:128[videoz]", <<>>, <<>>,
                                  {}, {"[videoz]"}),
                     Semi, Filter("[videoz]scale=:[videoy]", size, <<>>,
                                  {"[videoz]"}, {"[videoy]"}),
                     Semi, Filter("[videoy]realtime[videox]", <<>>, <<>>,
                                  {"[videoy]"}, {"[videox]"})>>,
               !.inputFiles = @ + 1]
       ELSE IF f.opts.errorScreen = "testsrc"
       THEN [st EXCEPT
               !.args = a0 \o <<Flag("-f"), Flag("lavfi"), Flag("-i"), Tok("testsrc=size=x", size, <<>>)>>,
               !.videoComplex = <<Semi, Filter("realtime[videox]", <<>>, <<>>, {}, {"[videox]"})>>,
               !.inputFiles = @ + 1]
       ELSE IF f.opts.errorScreen = "text" /\ ~x.streamUrl.isString
       THEN LET sz2 == (st.iH + 32) \div 33
                sz1 == (sz2 * 3 + 1) \div 2
                sz3 == 2 * sz2
            IN [st EXCEPT
                  !.args = a0 \o <<Flag("-f"), Flag("lavfi"), Flag("-i"),
                                   Tok("color=c=black:s=x", size, <<>>)>>,
                  !.inputFiles = @ + 1,
                  !.videoComplex =
                      <<Semi, Filter("drawtext,drawtext[videoy]",
                                     <<sz1, sz2, sz3>>,
                                     <<x.streamUrl.errorTitle,
                                       IF x.streamUrl.subtitle = None THEN "undefined"
                                       ELSE x.streamUrl.subtitle[1]>>, {}, {"[videoy]"}),
                        Semi, Filter("[videoy]realtime[videox]", <<>>, <<>>,
                                     {"[videoy]"}, {"[videox]"})>>]
       ELSE [st EXCEPT
               !.args = a0 \o <<Flag("-f"), Flag("lavfi"), Flag("-i"),
                                Tok("color=c=black:s=x", size, <<>>)>>,
               !.inputFiles = @ + 1,
               !.videoComplex = <<Semi, Filter("realtime[videox]", <<>>, <<>>, {}, {"[videox]"})>>]

\* Lines 506-535: the sound of an error or offline stream.
PlanSound(st, x) ==
    LET f == st.f
        durstr == IF x.streamStats.duration = None THEN <<>> ELSE <<x.streamStats.duration[1]>>
        silent == [st EXCEPT !.audioComplex =
                      <<Semi, Filter("aevalsrc=0:duration=ms[audioy]", durstr, <<>>,
                                     {}, {"[audioy]"})>>]
        s1 == IF x.streamUrl.errorTitle = "offline"
              THEN IF f.channel.offlineSoundtrack # None /\ f.channel.offlineSoundtrack[1] # ""
                   THEN [silent EXCEPT
                           !.args = @ \o <<Flag("-i"), Str(f.channel.offlineSoundtrack[1])>>,
                           !.audioComplex =
                               <<Semi, Filter("[:a]aloop=loop=-1:size=2147483647[audioy]",
                                              <<st.inputFiles>>, <<>>, {}, {"[audioy]"})>>,
                           !.inputFiles = @ + 1]
                   ELSE silent
              ELSE IF f.opts.errorAudio = "whitenoise"
                      \/ (f.opts.errorAudio # "sine" /\ f.audioOnly)
              THEN [silent EXCEPT
                      !.audioComplex = <<Semi, Filter("aevalsrc=random(0):duration=ms[audioy]",
                                                       durstr, <<>>, {}, {"[audioy]"})>>,
                      !.f.volumePercent = Min(70, @)]
              ELSE IF f.opts.errorAudio = "sine"
              THEN [silent EXCEPT
                      !.audioComplex = <<Semi, Filter("sine=f=440:duration=ms[audioy]",
                                                       durstr, <<>>, {}, {"[audioy]"})>>,
                      !.f.volumePercent = Min(70, @)]
              ELSE silent
        s2 == IF ~f.audioOnly
              THEN [s1 EXCEPT !.args = @ \o <<Flag("-pix_fmt"), Flag("yuv420p")>>] ELSE s1
    IN [s2 EXCEPT !.audioComplex = @ \o <<Semi, Filter("[audioy]arealtime[audiox]", <<>>, <<>>,
                                                        {"[audioy]"}, {"[audiox]"})>>,
                  !.currentAudio = "[audiox]"]

\* Lines 425-537: a stream that has to be generated.
PlanGenerated(st, x) ==
    IF x.streamUrl.isString /\ x.streamUrl.url # "" /\ ~x.streamStats.audioOnly THEN st
    ELSE LET s1 == [st EXCEPT !.doOverlay = FALSE,
                              !.f.apad = FALSE,
                              !.f.audioChannelsSampleRate = TRUE,
                              !.iW = st.f.wantedW,
                              !.iH = st.f.wantedH]
             s2 == IF ~s1.f.audioOnly THEN PlanPicture(s1, x) ELSE s1
             s3 == IF ~x.streamUrl.isString THEN PlanSound(s2, x) ELSE s2
         IN [s3 EXCEPT !.currentVideo = "[videox]"]

\* Lines 538-545: the watermark's input.
PlanWatermarkInput(st, x) ==
    IF st.doOverlay /\ x.watermark # None /\ x.watermark[1].url # None
    THEN LET w == x.watermark[1]
             a0 == IF w.animated THEN st.args \o <<Flag("-ignore_loop"), Flag("0")>> ELSE st.args
         IN [st EXCEPT !.args = a0 \o <<Flag("-i"), Str(w.url[1])>>,
                       !.overlayFile = st.inputFiles,
                       !.inputFiles = @ + 1,
                       !.f.ensureResolution = TRUE]
    ELSE st

\* Lines 547-604: scale, pad and setsar.
PlanResize(st, x) ==
    LET f == st.f
        stats == x.streamStats
        s0 == [st EXCEPT !.beforeSizeChange = st.currentVideo]
    IN IF ~stats.audioOnly
          /\ \/ f.ensureResolution
                /\ (stats.anamorphic \/ st.iW # f.wantedW \/ st.iH # f.wantedH)
             \/ isLargerResolution(st.iW, st.iH, f.wantedW, f.wantedH)
       THEN LET p0 == st.iW * stats.pixelP
                q0 == st.iH * stats.pixelQ
                g == gcd(q0, p0)
                p == p0 \div g
                q == q0 \div g
                hypotheticalW1 == f.wantedW
                hypotheticalH1 == (hypotheticalW1 * q) \div p
                hypotheticalH2 == f.wantedH
                hypotheticalW2 == (f.wantedH * p) \div q
                cw == IF hypotheticalH1 <= f.wantedH THEN hypotheticalW1 ELSE hypotheticalW2
                ch == IF hypotheticalH1 <= f.wantedH THEN hypotheticalH1 ELSE hypotheticalH2
                scaled == st.videoComplex
                          \o <<Semi, Filter("scale=::flags=[scaled]", <<cw, ch>>,
                                            <<st.currentVideo, f.opts.scalingAlgorithm>>,
                                            {st.currentVideo}, {"[scaled]"})>>
                odd == ~f.ensureResolution /\ (cw % 2 = 1 \/ ch % 2 = 1)
                wantedW == IF odd THEN cw + (cw % 2) ELSE f.wantedW
                wantedH == IF odd THEN ch + (ch % 2) ELSE f.wantedH
                bars == wantedW # cw \/ wantedH # ch
                padded == IF bars
                          THEN scaled
                               \o <<Semi, Filter("[scaled]pad=::(ow-iw)/2:(oh-ih)/2[blackpadded]",
                                                 <<wantedW, wantedH>>, <<>>,
                                                 {"[scaled]"}, {"[blackpadded]"})>>
                          ELSE scaled
                last == IF bars THEN "[blackpadded]" ELSE "[scaled]"
                name == IF ~f.ensureResolution /\ s0.beforeSizeChange # "[fpchange]"
                        THEN "[minsiz]" ELSE "[siz]"
            IN [s0 EXCEPT
                  !.f.wantedW = wantedW,
                  !.f.wantedH = wantedH,
                  !.videoComplex = padded \o <<Semi, Filter("setsar=1", <<>>, <<last, name>>,
                                                            {last}, {name})>>,
                  !.currentVideo = name,
                  !.iW = wantedW,
                  !.iH = wantedH]
       ELSE s0

\* Lines 606-646: the watermark laid over the picture.
PlanOverlay(st, x) ==
    IF st.doOverlay /\ x.watermark # None /\ ~st.f.audioOnly
    THEN LET wm == x.watermark[1]
             w == (wm.width * st.iW + 50) \div 100
             horz == (wm.horizontalMargin * st.iW + 50) \div 100
             vert == (wm.verticalMargin * st.iH + 50) \div 100
             icnDur == IF wm.duration > 0 THEN <<wm.duration>> ELSE <<>>
             sized == IF ~wm.fixedSize
                      THEN st.videoComplex
                           \o <<Semi, Filter("[:v]scale=:-1[icn]", <<st.overlayFile, w>>, <<>>,
                                             {}, {"[icn]"})>>
                      ELSE st.videoComplex
             waterVideo == IF ~wm.fixedSize THEN "[icn]" ELSE "[:v]"
         IN [st EXCEPT
               !.videoComplex = sized \o <<Semi,
                   Filter("overlay=[comb]", <<st.overlayFile, horz, vert>> \o icnDur,
                          <<st.currentVideo, waterVideo, wm.position,
                            IF wm.animated THEN "shortest=1:" ELSE "">>,
                          {st.currentVideo} \cup (IF ~wm.fixedSize THEN {"[icn]"} ELSE {}),
                          {"[comb]"})>>,
               !.currentVideo = "[comb]"]
    ELSE st

\* Lines 648-663: the volume, and apad.
PlanLevel(st, x) ==
    LET s1 == IF st.f.volumePercent # 100
              THEN [st EXCEPT !.audioComplex = @ \o <<Semi, Filter("volume=[boosted]",
                                                   <<st.f.volumePercent>>, <<st.currentAudio>>,
                                                   {st.currentAudio}, {"[boosted]"})>>,
                              !.currentAudio = "[boosted]"]
              ELSE st
    IN IF s1.f.apad /\ ~s1.f.audioOnly
       THEN [s1 EXCEPT !.audioComplex =
                             @ \o <<Semi, Filter("apad=whole_dur=ms[padded]",
                                           IF x.streamStats.duration = None THEN <<>>
                                           ELSE <<x.streamStats.duration[1]>>,
                                           <<s1.currentAudio>>,
                                           {s1.currentAudio}, {"[padded]"})>>,
                       !.currentAudio = "[padded]"]
       ELSE s1

\* filterComplex.slice(1), line 700: the text without its first character.
slice_none(text) == text
slice(text) == Tail(text)

\* Lines 665-789: what is transcoded, the filter graph, the maps, the
\* encoders' flags, the metadata, -t and the output.
PlanClose(st, x) ==
    LET f == st.f
        o == f.opts
        transcodeVideo0 == o.normalizeVideoCodec
                           /\ isDifferentVideoCodec(x.streamStats.videoCodec, o.videoEncoder)
        transcodeAudio0 == o.normalizeAudioCodec
                           /\ isDifferentAudioCodec(x.streamStats.audioCodec, o.audioEncoder)
        video1 == IF ~transcodeVideo0 /\ st.currentVideo = "[minsiz]"
                  THEN st.beforeSizeChange ELSE st.currentVideo
        filtersV == ~f.audioOnly /\ video1 # "[video]"
        transcodeVideo == transcodeVideo0 \/ filtersV
        video2 == IF ~f.audioOnly /\ video1 = "[video]" THEN Num(st.videoFile)
                  ELSE MapLabel(video1)
        filtersA == st.currentAudio # "[audio]"
        transcodeAudio == transcodeAudio0 \/ filtersA
        audio2 == IF filtersA THEN MapLabel(st.currentAudio)
                  ELSE Tok(":", <<st.audioFile, x.streamStats.audioIndex>>, <<>>)
        filterComplex == (IF filtersV THEN st.videoComplex ELSE <<>>)
                         \o (IF filtersA THEN st.audioComplex ELSE <<>>)
        a1 == IF filterComplex # <<>>
              THEN st.args \o <<Flag("-filter_complex")>> \o slice(filterComplex)
              ELSE st.args
        a2 == IF ~f.audioOnly
              THEN a1 \o <<Flag("-map"), video2, Flag("-c:v"),
                           Str(IF transcodeVideo THEN o.videoEncoder ELSE "copy"),
                           Flag("-sc_threshold"), Flag("1000000000")>>
                      \o (IF st.useStillImageTune THEN <<Flag("-tune"), Flag("stillimage")>>
                          ELSE <<>>)
              ELSE a1
        a3 == a2 \o <<Flag("-map"), audio2, Flag("-flags"), Flag("cgop+ilme")>>
        a4 == IF transcodeVideo /\ ~f.audioOnly
              THEN a3 \o <<Flag("-b:v"), Num(o.videoBitrate), Flag("-maxrate:v"),
                           Num(o.videoBitrate), Flag("-bufsize:v"), Num(o.videoBufferSize)>>
              ELSE a3
        a5 == IF transcodeAudio
              THEN a4 \o <<Flag("-b:a"), Num(o.audioBitrate), Flag("-maxrate:a"),
                           Num(o.audioBitrate), Flag("-bufsize:a"), Num(o.audioBufferSize)>>
                      \o (IF f.audioChannelsSampleRate
                          THEN <<Flag("-ac"), Num(o.audioChannels), Flag("-ar"),
                                 Num(o.audioSampleRate)>>
                          ELSE <<>>)
              ELSE a4
        a6 == a5 \o <<Flag("-c:a"), Str(IF transcodeAudio THEN o.audioEncoder ELSE "copy"),
                      Flag("-map_metadata"), Flag("-1"), Flag("-movflags"), Flag("+faststart"),
                      Flag("-muxdelay"), Flag("0"), Flag("-muxpreload"), Flag("0"),
                      Flag("-metadata"), Flag("service_provider=tunarr"),
                      Flag("-metadata"), Tok("service_name=", <<>>, <<f.channel.name>>)>>
        a7 == IF st.duration # None THEN a6 \o <<Flag("-t"), Num(st.duration[1])>> ELSE a6
    IN a7 \o <<Flag("-f"), Flag("mpegts"), Flag("pipe:1")>>

\* spawn, lines 342-789: the argument list, and the instance's fields after
\* the call.
SpawnPlan(f, x) ==
    LET st == PlanLevel(PlanOverlay(PlanResize(PlanWatermarkInput(PlanGenerated(
                  PlanRate(PlanOpen(f, x), x), x), x), x), x), x)
    IN [ffmpegArgs |-> PlanClose(st, x), fields |-> st.f]

\* What spawnError and spawnOffline know of the stream: its size and duration.
GeneratedStats(f, duration) ==
    [videoWidth |-> f.wantedW, videoHeight |-> f.wantedH, duration |-> Some(duration),
     audioIndex |-> -1, videoFramerate |-> 0, videoScanType |-> "undefined",
     audioOnly |-> FALSE, anamorphic |-> FALSE, pixelP |-> 1, pixelQ |-> 1,
     videoCodec |-> "undefined", audioCodec |-> "undefined", placeholderImage |-> None]

\* A file's stats: width, height, sample aspect ratio pixelP:pixelQ.
FileStats(w, h, codec) ==
    [videoWidth |-> w, videoHeight |-> h, duration |-> Some(60000),
     audioIndex |-> 1, videoFramerate |-> 24, videoScanType |-> "progressive",
     audioOnly |-> FALSE, anamorphic |-> FALSE, pixelP |-> 1, pixelQ |-> 1,
     videoCodec |-> codec, audioCodec |-> "aac", placeholderImage |-> None]

PlanStats ==
    {FileStats(1478, 1080, "h264"), FileStats(1478, 1080, "hevc"), FileStats(1280, 720, "h264")}

PlanWatermark ==
    [url |-> Some("/images/logo.png"), animated |-> FALSE, width |-> 10,
     horizontalMargin |-> 2, verticalMargin |-> 2, duration |-> 0, fixedSize |-> FALSE,
     position |-> "bottom-right"]

PlanChannel ==
    [name |-> "one", offlinePicture |-> None, offlineSoundtrack |-> None,
     transcoding |-> [targetResolution |-> None, videoBitrate |-> None,
                      videoBufferSize |-> None]]

BaseSettings ==
    [enableTranscoding |-> TRUE, normalizeAudio |-> TRUE, normalizeAudioCodec |-> TRUE,
     normalizeVideoCodec |-> TRUE, errorScreen |-> "pic", normalizeResolution |-> TRUE,
     audioVolumePercent |-> 100, maxFPS |-> 60, numThreads |-> 4,
     deinterlaceFilter |-> "none", scalingAlgorithm |-> "bicubic",
     videoEncoder |-> "libx264", audioEncoder |-> "aac", videoBitrate |-> 2000,
     videoBufferSize |-> 2000, audioBitrate |-> 192, audioBufferSize |-> 50,
     audioChannels |-> 2, audioSampleRate |-> 48, errorAudio |-> "silent",
     targetResolution |-> [widthPx |-> 1280, heightPx |-> 720]]

PlanSettings ==
    {[BaseSettings EXCEPT !.enableTranscoding = e, !.normalizeAudio = a,
                          !.normalizeResolution = r, !.errorAudio = ea, !.errorScreen = es]
     : e \in BOOLEAN, a \in BOOLEAN, r \in BOOLEAN, ea \in {"silent", "sine"},
       es \in {"pic", "text"}}

\* One call of spawn on the instance, made for a caller that asked for the
\* duration `asked`.
CallSpawnAs(x, asked) ==
    LET r == SpawnPlan(plan[1], x)
    IN /\ plan' = Some(r.fields)
       /\ spawned' = Append(spawned, [input |-> x, ffmpegArgs |-> r.ffmpegArgs,
                                      asked |-> asked])
       /\ UNCHANGED emitted

CallSpawn(x) == CallSpawnAs(x, x.duration)

\* Mutant: the duration of an error stream is not capped.
ErrorDuration_uncapped(given) ==
    IF given = None THEN MAXIMUM_ERROR_DURATION_MS ELSE given[1]

\* spawnError, lines 298-303: the placeholder for no duration, then the cap.
ErrorDuration(given) ==
    Min(MAXIMUM_ERROR_DURATION_MS,
        IF given = None THEN MAXIMUM_ERROR_DURATION_MS ELSE given[1])

\* spawnStream, lines 269-286.
PlanSpawnStream ==
    /\ Len(spawned) + Len(emitted) < MaxSpawns
    /\ \E stats \in PlanStats, startTime \in {None, Some(5)},
          watermark \in {None, Some(PlanWatermark)} :
         CallSpawn(SpawnInput(StreamUrl("/media/file.mkv"), stats, startTime,
                              Some(60000), TRUE, watermark))
    /\ UNCHANGED notPlan

\* An event emitted on the instance with no child process started.
Emit(event) ==
    /\ emitted' = Append(emitted, event)
    /\ UNCHANGED <<plan, spawned>>

\* spawnError, lines 288-316; with error screens off it emits error and
\* spawns nothing.
PlanSpawnError ==
    /\ Len(spawned) + Len(emitted) < MaxSpawns
    /\ IF ~plan[1].opts.enableTranscoding \/ plan[1].opts.errorScreen = "kill"
       THEN Emit("error")
       ELSE \E given \in {None, Some(5000), Some(90000)} :
              LET duration == ErrorDuration(given)
              IN CallSpawnAs(SpawnInput(ErrorTitle("Error", Some("subtitle")),
                                        GeneratedStats(plan[1], duration), None,
                                        Some(duration), TRUE, None), given)
    /\ UNCHANGED notPlan

\* spawnOffline, lines 318-340; with transcoding off it emits end and spawns
\* nothing.
PlanSpawnOffline ==
    /\ Len(spawned) + Len(emitted) < MaxSpawns
    /\ IF ~plan[1].opts.enableTranscoding
       THEN Emit("end")
       ELSE \E duration \in {5000, 25000} :
              CallSpawn(SpawnInput(ErrorTitle("offline", None),
                                   GeneratedStats(plan[1], duration), None, Some(duration),
                                   TRUE, None))
    /\ UNCHANGED notPlan

PlanInit ==
    /\ EncoderFresh
    /\ CacheEmpty
    /\ clock = 1
    /\ FillerIdle
    /\ StreamIdle
    /\ RouteFresh
    /\ ConcurrentIdle
    /\ SessionIdle
    /\ ConcatIdle
    /\ plan \in {Some(Constructed(o, PlanChannel)) : o \in PlanSettings}
    /\ spawned = <<>>
    /\ emitted = <<>>
    /\ resChannel = MkChannel("X", 0, <<60000>>)
    /\ resDate = 0
    /\ resOut = None
    /\ resLater = None
    /\ resItem = None

PlanNext ==
    \/ PlanSpawnStream
    \/ PlanSpawnError
    \/ PlanSpawnOffline

SpecPlan == PlanInit /\ [][PlanNext]_vars

(***************************************************************************)
(* FFMPEG.spawn over the options that shape the filter graph: the error    *)
(* screens, the volume, apad, normalizeResolution, the audio-only mode,    *)
(* and streams that call for fps, a deinterlacer, a resize, a watermark.   *)
(***************************************************************************)
GraphSettings ==
    {[BaseSettings EXCEPT !.normalizeAudio = a, !.normalizeResolution = r,
                          !.audioVolumePercent = v, !.errorScreen = es,
                          !.deinterlaceFilter = "yadif=1"]
     : a \in BOOLEAN, r \in BOOLEAN, v \in {100, 80},
       es \in {"pic", "static", "testsrc", "text", "blank"}}

\* setAudioOnly, lines 157-159.
setAudioOnly(f, audioOnly) == [f EXCEPT !.audioOnly = audioOnly]

\* Files: fast and interlaced, anamorphic and wide, already fitting, and one
\* with no picture but a cover image.
FastInterlaced ==
    [FileStats(1478, 1080, "hevc") EXCEPT !.videoFramerate = 90, !.videoScanType = "interlaced"]
Interlaced == [FileStats(1478, 1080, "h264") EXCEPT !.videoScanType = "interlaced"]
Anamorphic ==
    [FileStats(720, 576, "hevc") EXCEPT !.anamorphic = TRUE, !.pixelP = 16, !.pixelQ = 15]
CoverOnly ==
    [FileStats(0, 0, "undefined") EXCEPT !.audioOnly = TRUE,
                                         !.placeholderImage = Some("/images/cover.png")]

\* The streams asked for: a file's stats and the watermark, if any.
GraphStreams ==
    {<<FastInterlaced, None>>, <<FastInterlaced, Some(PlanWatermark)>>,
     <<Interlaced, None>>, <<Anamorphic, Some(PlanWatermark)>>,
     <<FileStats(1280, 720, "h264"), None>>, <<CoverOnly, Some(PlanWatermark)>>}

\* spawnStream, lines 269-286.
GraphSpawnStream ==
    /\ Len(spawned) < MaxSpawns
    /\ \E stream \in GraphStreams :
         CallSpawn(SpawnInput(StreamUrl("/media/file.mkv"), stream[1], None,
                              Some(60000), TRUE, stream[2]))
    /\ UNCHANGED notPlan

\* spawnError, lines 288-316, asked for no duration.
GraphSpawnError ==
    /\ Len(spawned) < MaxSpawns
    /\ plan[1].opts.enableTranscoding
    /\ plan[1].opts.errorScreen # "kill"
    /\ LET duration == ErrorDuration(None)
       IN CallSpawnAs(SpawnInput(ErrorTitle("Error", Some("subtitle")),
                                 GeneratedStats(plan[1], duration), None, Some(duration),
                                 TRUE, None), None)
    /\ UNCHANGED notPlan

\* spawnOffline, lines 318-340.
GraphSpawnOffline ==
    /\ Len(spawned) < MaxSpawns
    /\ plan[1].opts.enableTranscoding
    /\ CallSpawn(SpawnInput(ErrorTitle("offline", None), GeneratedStats(plan[1], 25000),
                            None, Some(25000), TRUE, None))
    /\ UNCHANGED notPlan

GraphInit ==
    /\ EncoderFresh
    /\ CacheEmpty
    /\ clock = 1
    /\ FillerIdle
    /\ StreamIdle
    /\ RouteFresh
    /\ ConcurrentIdle
    /\ SessionIdle
    /\ ConcatIdle
    /\ plan \in {Some(setAudioOnly(Constructed(o, PlanChannel), b))
                 : o \in GraphSettings, b \in BOOLEAN}
    /\ spawned = <<>>
    /\ emitted = <<>>
    /\ resChannel = MkChannel("X", 0, <<60000>>)
    /\ resDate = 0
    /\ resOut = None
    /\ resLater = None
    /\ resItem = None

GraphNext ==
    \/ GraphSpawnStream
    \/ GraphSpawnError
    \/ GraphSpawnOffline

SpecGraph == GraphInit /\ [][GraphNext]_vars

(***************************************************************************)
(* FFMPEG with transcoding switched off while other settings stay on: the  *)
(* three spawn wrappers on one instance.                                   *)
(***************************************************************************)
\* getWatermark, part_004 lines 331-341: no watermark with transcoding off.
getWatermark(ffmpegSettings, watermark) ==
    IF ~ffmpegSettings.enableTranscoding THEN None ELSE watermark

PassthroughSettings ==
    {[BaseSettings EXCEPT !.enableTranscoding = e, !.audioVolumePercent = v,
                          !.deinterlaceFilter = d]
     : e \in BOOLEAN, v \in {100, 80}, d \in {"none", "yadif=1"}}

\* A progressive file faster than any frame rate cap.
VeryFast == [FileStats(1280, 720, "h264") EXCEPT !.videoFramerate = 240]

\* Probe results: frame rates 24, 90 and 240, both scan types, sizes under,
\* at and over the target, square and anamorphic pixels, three codecs, and a
\* file with sound only.
PassthroughFiles ==
    {FileStats(1280, 720, "h264"), FileStats(1478, 1080, "mpeg2video"),
     FileStats(640, 480, "hevc"), Anamorphic, Interlaced, FastInterlaced, VeryFast,
     CoverOnly}

\* spawnStream, lines 269-286, given the watermark getWatermark returned.
PassthroughSpawnStream ==
    /\ Len(spawned) + Len(emitted) < MaxSpawns
    /\ \E stats \in PassthroughFiles, watermark \in {None, Some(PlanWatermark)} :
         CallSpawn(SpawnInput(StreamUrl("/media/file.mkv"), stats, None, Some(60000), TRUE,
                              getWatermark(plan[1].opts, watermark)))
    /\ UNCHANGED notPlan

PassthroughInit ==
    /\ EncoderFresh
    /\ CacheEmpty
    /\ clock = 1
    /\ FillerIdle
    /\ StreamIdle
    /\ RouteFresh
    /\ ConcurrentIdle
    /\ SessionIdle
    /\ ConcatIdle
    /\ plan \in {Some(setAudioOnly(Constructed(o, PlanChannel), b))
                 : o \in PassthroughSettings, b \in BOOLEAN}
    /\ spawned = <<>>
    /\ emitted = <<>>
    /\ resChannel = MkChannel("X", 0, <<60000>>)
    /\ resDate = 0
    /\ resOut = None
    /\ resLater = None
    /\ resItem = None

PassthroughNext ==
    \/ PassthroughSpawnStream
    \/ PlanSpawnError
    \/ PlanSpawnOffline

SpecPassthrough == PassthroughInit /\ [][PassthroughNext]_vars

(***************************************************************************)
(* Claims about the redirect walk (Spec).                                  *)
(***************************************************************************)
NumChannels == Cardinality({c \in ChannelIds : channels[c] # None})

\* C2 (redirect termination): with N channels in the store, the redirect
\* loop follows at most N redirects, cycles included.
C2_RedirectTermination == Len(redirectChannels) <= NumChannels

\* An offline item of 60 000 ms whose error names every visited channel.
IsCycleItem(item) ==
    /\ item.type = "offline"
    /\ item.duration = 60000
    /\ item.error # None
    /\ item.error[1].text = "Recursive channel redirect found: "
    /\ \A i \in 1..Len(redirectChannels) : Includes(item.error[1].ids, redirectChannels[i])

BoundCandidates ==
    LET bo == IF resolvedItem[1].beginningOffset = None THEN 0
              ELSE resolvedItem[1].beginningOffset[1]
    IN {upperBounds[i] + bo : i \in 1..Len(upperBounds)}
       \cup (IF resolvedItem[1].streamDuration = None THEN {}
             ELSE {resolvedItem[1].streamDuration[1]})

\* C4 (redirect bound): once the upper bounds are applied, the item's
\* streamDuration is the minimum of its own streamDuration and of every
\* hop's remaining redirect time plus beginningOffset.
C4_RedirectBound ==
    (pc = "record" /\ ~isLoading /\ redirectChannels # <<>>) =>
        /\ lineupItem[1].streamDuration # None
        /\ lineupItem[1].streamDuration[1] \in BoundCandidates
        /\ \A b \in BoundCandidates : lineupItem[1].streamDuration[1] <= b

\* Two hops ending in content joined late enough to carry a beginning
\* offset: the final streamDuration is the first hop's remaining time plus
\* the offset, below the item's own.
C4_Witness ==
    /\ pc = "record"
    /\ Len(redirectChannels) = 2
    /\ resolvedItem # None
    /\ resolvedItem[1].type = "program"
    /\ resolvedItem[1].beginningOffset # None
    /\ resolvedItem[1].beginningOffset[1] > 0
    /\ lineupItem[1].streamDuration[1] = upperBounds[1] + resolvedItem[1].beginningOffset[1]
    /\ lineupItem[1].streamDuration[1] < resolvedItem[1].streamDuration[1]

(***************************************************************************)
(* Claims about the encoder process (SpecEncoder).                         *)
(***************************************************************************)
Emitted(c, ev) == \E k \in DOMAIN children[c].events : children[c].events[k] = ev

\* An exit the exit listener saw.
Observed(c) == children[c].state = "exited" /\ children[c].handlers

\* C5 (exit-code mapping), as claimed: with kill() not called, exit 0 emits
\* end, exit 255 after stdout bytes emits end and no error, exit 255 before
\* any bytes emits error, exit 1 emits error, an exit by signal emits close.
C5_ExitCodeMapping ==
    \A c \in DOMAIN children :
        (Observed(c) /\ ~hasBeenKilled) =>
            LET code == children[c].code IN
            /\ code = Some(0) => Emitted(c, "end")
            /\ (code = Some(255) /\ children[c].bytes) =>
                   (Emitted(c, "end") /\ ~Emitted(c, "error"))
            /\ (code = Some(255) /\ ~children[c].bytes) => Emitted(c, "error")
            /\ code = Some(1) => Emitted(c, "error")
            /\ code = None => Emitted(c, "close")

\* C6, as claimed: every exit of the child (code 0, 255, another code, or a
\* signal) makes the emitter emit close.
C6_EveryExitEmitsClose ==
    \A c \in DOMAIN children : Observed(c) => Emitted(c, "close")

\* C7 (preemptive kill): a child started after kill() was called has been
\* sent SIGKILL by the time the spawning call returns, and once kill() has
\* been called the instance's current child is never running unsignalled.
C7_PreemptiveKill ==
    /\ \A c \in DOMAIN children :
           children[c].spawnedAfterKill => children[c].sigkill
    /\ (hasBeenKilled /\ ffmpeg # None) =>
           (children[ffmpeg[1]].sigkill \/ children[ffmpeg[1]].state = "exited")

\* kill() came first; then spawn() returned without a child and spawnConcat()
\* started one and sent it SIGKILL at once.
C7_Witness ==
    /\ hasBeenKilled
    /\ prevented > 0
    /\ \E c \in DOMAIN children :
           children[c].spawnedAfterKill /\ children[c].sigkill /\ ~children[c].handlers

(***************************************************************************)
(* Claims about filler (SpecFiller).                                       *)
(***************************************************************************)
LotteryFiller == lastPick # None /\ lastPick[1].result.filler # None

\* C8 (filler cooldown), as claimed: a clip whose playback on the channel
\* was recorded at time t is not returned by a pick at any time in
\* [t, t + fillerRepeatCooldown - SLACK], both ends included.
C8_FillerCooldownClosed ==
    LotteryFiller =>
        LET lp == lastPick[1]
            t == lp.before[lp.result.filler[1].key]
        IN t # 0 => ~(t <= lp.at /\ lp.at <= t + RepeatCooldown(fChannel) - SLACK)

\* C8, amended: a clip whose playback on the channel was recorded at time t
\* is not returned by a pick at any time in
\* [t, t + fillerRepeatCooldown - SLACK), the upper end excluded.
C8_FillerCooldown ==
    lastPick # None =>
        LET lp == lastPick[1] IN
        \A k \in ProgramKeys :
            (/\ lp.before[k] # 0
             /\ lp.before[k] <= lp.at
             /\ lp.at < lp.before[k] + RepeatCooldown(fChannel) - SLACK)
            => (lp.result.filler = None \/ lp.result.filler[1].key # k)

\* Clip a was played, and a pick made inside its cooldown window, for a gap
\* it fits, did not return it.
C8_Witness ==
    /\ lastPick # None
    /\ lastPick[1].before["a"] # 0
    /\ lastPick[1].before["a"] < lastPick[1].at
    /\ lastPick[1].at < lastPick[1].before["a"] + RepeatCooldown(fChannel) - SLACK
    /\ lastPick[1].R = 25000
    /\ (lastPick[1].result.filler = None \/ lastPick[1].result.filler[1].key # "a")

\* C9 (filler fit), as claimed: every filler item handed out for a gap with
\* remaining time R, first join or not, lottery or fallback, has
\* duration <= R + SLACK.
C9_FillerFitAlways ==
    (lastPick # None /\ lastPick[1].item.type = "commercial")
    => lastPick[1].item.duration <= lastPick[1].R + SLACK

\* C9, amended: a filler the lottery returns when isFirst is false has
\* duration <= R + SLACK; when isFirst is true the lottery's limit is
\* R + 7 days + SLACK.  (The static fallback is used whatever its duration.)
C9_FillerFit ==
    LotteryFiller =>
        LET lp == lastPick[1] IN
        /\ ~lp.isFirst => lp.result.filler[1].duration <= lp.R + SLACK
        /\ lp.isFirst => lp.result.filler[1].duration <= lp.R + SEVEN_DAYS + SLACK

\* A lottery filler longer than the gap but within SLACK of it, not a first join.
C9_Witness ==
    /\ LotteryFiller
    /\ ~lastPick[1].isFirst
    /\ lastPick[1].result.filler[1].duration > lastPick[1].R
    /\ lastPick[1].item.type = "commercial"
    /\ lastPick[1].item.key = lastPick[1].result.filler[1].key

(***************************************************************************)
(* Claims about the resolver (SpecResolver).                               *)
(***************************************************************************)
DurationsSumToChannelDuration(ch) ==
    SumDurations(ch.programs, Len(ch.programs)) = ch.duration

\* The position in the loop the resolver was asked about.
ElapsedInLoop == (resDate - resChannel.startTime) % resChannel.duration

\* 0-based index of the item that contains the elapsed position, found from
\* the prefix sums alone.
ContainingIndex ==
    CHOOSE i \in 0..(Len(resChannel.programs) - 1) :
        /\ SumDurations(resChannel.programs, i) <= ElapsedInLoop
        /\ ElapsedInLoop < SumDurations(resChannel.programs, i + 1)

TimeIntoItem == ElapsedInLoop - SumDurations(resChannel.programs, ContainingIndex)

\* C1 (time conservation): for a channel whose item durations sum to
\* channel.duration and a date at or after the channel's start, the resolver
\* returns (item, timeElapsed, index) with 0 <= timeElapsed < item.duration,
\* and either the durations before index plus timeElapsed equal
\* (date - startTime) mod duration, or timeElapsed is 0 (smoothed).
C1_TimeConservation ==
    (/\ resOut # None
     /\ resDate >= resChannel.startTime
     /\ DurationsSumToChannelDuration(resChannel))
    => LET r == resOut[1] IN
       /\ ~r.threw
       /\ r.programIndex \in 0..(Len(resChannel.programs) - 1)
       /\ r.program = resChannel.programs[r.programIndex + 1]
       /\ 0 <= r.timeElapsed
       /\ r.timeElapsed < r.program.duration
       /\ \/ SumDurations(resChannel.programs, r.programIndex) + r.timeElapsed = ElapsedInLoop
          \/ r.timeElapsed = 0

\* A resolve in the second item of a lineup, 10 s in, with no smoothing.
C1_Witness ==
    /\ resOut # None
    /\ resDate >= resChannel.startTime
    /\ resOut[1].programIndex = 1
    /\ resOut[1].timeElapsed = 10000
    /\ SumDurations(resChannel.programs, 1) + 10000 = ElapsedInLoop

\* C10 (boundary smoothing): when the item containing the elapsed position is
\* longer than 2*SLACK and the position is within SLACK of its end, the
\* resolver returns the next item (index i+1 mod N) at timeElapsed 0;
\* otherwise it returns item i with the time into it unchanged.
C10_BoundarySmoothing ==
    (resOut # None /\ resDate >= resChannel.startTime)
    => LET r == resOut[1]
           i == ContainingIndex
           n == Len(resChannel.programs)
           item == resChannel.programs[i + 1]
       IN IF item.duration > 2 * SLACK /\ TimeIntoItem > item.duration - SLACK
          THEN /\ r.programIndex = (i + 1) % n
               /\ r.program = resChannel.programs[((i + 1) % n) + 1]
               /\ r.timeElapsed = 0
          ELSE /\ r.programIndex = i
               /\ r.program = item
               /\ r.timeElapsed = TimeIntoItem

\* The spec's example: [A 60 s, B 120 s, C 30 s], startTime 0, date 59 995 ms
\* resolves to (B, 0, 1).
C10_Witness ==
    /\ resOut # None
    /\ resChannel.startTime = 0
    /\ Len(resChannel.programs) = 3
    /\ resChannel.programs[1].duration = 60000
    /\ resChannel.programs[2].duration = 120000
    /\ resChannel.programs[3].duration = 30000
    /\ resDate = 59995
    /\ resOut[1].programIndex = 1
    /\ resOut[1].timeElapsed = 0
    /\ resOut[1].program.duration = 120000

\* C11 (boundary smoothing idempotence), as claimed: for every date at or
\* after the channel's start, if the resolver gives (i, d) at t then at
\* t + SLACK/2 it gives (i, d + SLACK/2) or ((i + 1) mod N, 0).
C11_HalfSlackLaterAlways ==
    (resOut # None /\ resLater # None /\ resDate >= resChannel.startTime)
    => LET r == resOut[1]
           l == resLater[1]
           n == Len(resChannel.programs)
       IN \/ (l.programIndex = r.programIndex /\ l.timeElapsed = r.timeElapsed + SLACK \div 2)
          \/ (l.programIndex = (r.programIndex + 1) % n /\ l.timeElapsed = 0)

\* C11, amended: the same, for a date that lies at least SLACK before the
\* end of the item that contains it.
C11_HalfSlackLater ==
    (/\ resOut # None
     /\ resLater # None
     /\ resDate >= resChannel.startTime
     /\ TimeIntoItem <= resChannel.programs[ContainingIndex + 1].duration - SLACK)
    => LET r == resOut[1]
           l == resLater[1]
           n == Len(resChannel.programs)
       IN \/ (l.programIndex = r.programIndex /\ l.timeElapsed = r.timeElapsed + SLACK \div 2)
          \/ (l.programIndex = (r.programIndex + 1) % n /\ l.timeElapsed = 0)

\* A date SLACK + 1 before the end of the first of several items: the
\* resolver gives that item there and the next one, at 0, SLACK/2 later.
C11_Witness ==
    /\ resOut # None
    /\ resLater # None
    /\ Len(resChannel.programs) >= 2
    /\ ContainingIndex = 0
    /\ TimeIntoItem = resChannel.programs[1].duration - SLACK - 1
    /\ resOut[1].programIndex = 0
    /\ resOut[1].timeElapsed = TimeIntoItem
    /\ resLater[1].programIndex = 1
    /\ resLater[1].timeElapsed = 0

\* C12 (start-snap): the stream item made of a resolved content item has
\* start 0 and beginningOffset timeElapsed when timeElapsed < 30 000, start
\* timeElapsed and beginningOffset 0 otherwise, and streamDuration =
\* duration - start either way.
C12_StartSnap ==
    (resOut # None /\ resItem # None /\ resOut[1].program.type = "content")
    => LET te == resOut[1].timeElapsed
           item == resItem[1]
       IN /\ item.type = "program"
          /\ te < 30000 => (item.start = 0 /\ item.beginningOffset = Some(te))
          /\ te >= 30000 => (item.start = te /\ item.beginningOffset = Some(0))
          /\ item.streamDuration = Some(resOut[1].program.duration - item.start)

\* The spec's example: [A 60 s, B 120 s, C 30 s] at 65 s gives B with start
\* 0 and beginningOffset 5 s.
C12_Witness ==
    /\ resOut # None
    /\ resItem # None
    /\ resChannel.startTime = 0
    /\ Len(resChannel.programs) = 3
    /\ resChannel.programs[1].duration = 60000
    /\ resChannel.programs[2].duration = 120000
    /\ resChannel.programs[3].duration = 30000
    /\ resDate = 65000
    /\ resOut[1].programIndex = 1
    /\ resItem[1].start = 0
    /\ resItem[1].beginningOffset = Some(5000)
    /\ resItem[1].streamDuration = Some(120000)

(***************************************************************************)
(* Claims about the request as a whole (Spec).                             *)
(***************************************************************************)
NoChannelGiven == req.channel = None
UnknownChannel == req.channel # None /\ channels[req.channel[1]] = None
NoEncoderExecutable == ~NoChannelGiven /\ ~UnknownChannel /\ ~ffmpegOk

\* Nothing was resolved, recorded or handed to a player.
NothingDone ==
    /\ currentProgram = None
    /\ lineupItem = None
    /\ handed = None
    /\ progPlayTime = [k \in ChannelIds \X ProgramKeys |-> 0]
    /\ fillerPlayTime = [k \in ChannelIds \X FillerIds |-> 0]
    /\ cacheItems \in StreamCaches
    /\ children = <<>>

\* C13 (validation order): no channel gives 400, else an unknown channel
\* gives 404, else a missing encoder executable gives 500, and in the three
\* cases nothing is resolved, recorded or spawned.
C13_ValidationOrder ==
    /\ (NoChannelGiven \/ UnknownChannel \/ NoEncoderExecutable)
           => (NothingDone /\ pc \in {"start", "done"})
    /\ pc = "done" =>
           /\ NoChannelGiven => result = ErrorResult(400)
           /\ UnknownChannel => result = ErrorResult(404)
           /\ NoEncoderExecutable => result = ErrorResult(500)

\* An unknown channel and no encoder executable at once: 404.
C13_Witness ==
    /\ pc = "done"
    /\ UnknownChannel
    /\ ~ffmpegOk
    /\ result = ErrorResult(404)
    /\ NothingDone

\* C16 (throttling): whenever the throttler reported too many attempts, the
\* item handed to the player is an offline item of 60 000 ms starting at 0
\* with the error 'Too many attempts, throttling', whatever item had been
\* resolved: content, commercial, offline or loading.
C16_Throttling ==
    (pc = "done" /\ throttled) =>
        /\ handed # None
        /\ handed[1].type = "offline"
        /\ handed[1].duration = 60000
        /\ handed[1].start = 0
        /\ handed[1].error # None
        /\ handed[1].error[1].text = "Too many attempts, throttling"

\* The loading item of a first request was resolved, and the throttle's item
\* went to the player in its place.
C16_Witness ==
    /\ pc = "done"
    /\ throttled
    /\ isLoading
    /\ resolvedItem # None
    /\ resolvedItem[1].type = "loading"
    /\ handed # None
    /\ handed[1].type = "offline"
    /\ handed[1].error = ThrottleError

\* The request stands before the choice of lines 213-240 with a short
\* flex item and leave to skip it.
SkipRemaining == currentProgram[1].program.duration - currentProgram[1].timeElapsed

SkipCase ==
    /\ pc = "select"
    /\ lineupItem = None
    /\ currentProgram # None
    /\ allowSkip
    /\ currentProgram[1].program.type = "offline"
    /\ SkipRemaining <= SLACK + 1
    /\ ~(Len(channels[req.channel[1]][1].programs) = 1 /\ currentProgram[1].programIndex # -1)

\* startStream is entered again.
ReEntry == pc = "select" /\ pc' = "start"

\* How far a request is from its end: the re-entry it may still make, the
\* place it stands at, the redirects it may still follow.
StepsLeft ==
    (IF allowSkip THEN 100 ELSE 0)
    + 10 * (CASE pc = "start" -> 8 [] pc = "resolve" -> 7 [] pc = "walk" -> 6
              [] pc = "select" -> 5 [] pc = "adjust" -> 4 [] pc = "record" -> 3
              [] pc = "throttle" -> 2 [] pc = "play" -> 1 [] OTHER -> 0)
    + (MaxHops - Len(redirectChannels))

\* A request that has not returned can take a step; Adjust asks for nothing
\* but an item.
CanStep ==
    /\ pc = "start" => ENABLED Validate
    /\ pc = "resolve" => ENABLED ResolveFirst
    /\ pc = "walk" => ENABLED (RedirectHop \/ WalkDone)
    /\ pc = "select" => ENABLED Select
    /\ pc = "adjust" => lineupItem # None
    /\ pc = "record" => ENABLED Record
    /\ pc = "throttle" => ENABLED Throttle
    /\ pc = "play" => ENABLED Play
    /\ pc \in {"start", "resolve", "walk", "select", "adjust", "record", "throttle", "play",
               "done"}

\* C18 (skip short offline): with allowSkip, an offline item with at most
\* SLACK + 1 ms left, outside the single-offline-item case, makes startStream
\* clear the playback record of every redirect channel visited, and of no
\* other, and enter itself again at startTimestamp + remaining + 1 with
\* allowSkip false; startStream is entered again in no other case, and
\* allowSkip never returns to true, so there is at most one re-entry; every
\* request ends (each step brings it nearer to its end, and it can take a
\* step until it has returned); and the lineup [content 3600 s, offline 5 s] at 3 600 001 ms
\* hands the player the content item from its start.
C18_SkipShortOffline ==
    /\ [][/\ SkipCase =>
               /\ ReEntry
               /\ startTimestamp' = startTimestamp + SkipRemaining + 1
               /\ ~allowSkip'
               /\ \A c \in ChannelIds :
                      cacheItems'[c] = IF Includes(redirectChannels, c) THEN None
                                       ELSE cacheItems[c]
          /\ (ReEntry \/ startTimestamp' # startTimestamp) => SkipCase
          /\ ~allowSkip => ~allowSkip'
          /\ StepsLeft' < StepsLeft]_vars
    /\ []CanStep
    /\ [](/\ pc = "done"
          /\ channels = ExampleStore
          /\ clock = 3600001
          /\ handed # None
          /\ ~isLoading
          /\ ~throttled
          => /\ startTimestamp = 3605001
             /\ handed[1].type = "program"
             /\ handed[1].key = "p"
             /\ handed[1].start = 0)

\* The example ran: entered again at 3 605 001 ms without leave to skip, and
\* the content item went to the player from its start.
C18_Witness ==
    /\ pc = "done"
    /\ channels = ExampleStore
    /\ clock = 3600001
    /\ startTimestamp = clock + 4999 + 1
    /\ ~allowSkip
    /\ handed # None
    /\ handed[1].type = "program"
    /\ handed[1].start = 0
    /\ result = SuccessResult

(***************************************************************************)
(* Claims about requests in flight together (SpecConcurrent).              *)
(***************************************************************************)
\* C17 (playback-cache write order): under any interleaving of requests in
\* flight, the skip re-entry included, the timestamps passed to
\* recordPlayback for the channel are in non-decreasing order.
C17_WriteOrder ==
    \A i, j \in DOMAIN recorded : i < j => recorded[i] <= recorded[j]

(***************************************************************************)
(* Claims about /playlist and /m3u8 (SpecSession).                         *)
(***************************************************************************)
\* C19 (playlist manifest and sessions): every successful /playlist response
\* is an ffconcat manifest with exactly two file entries, both /stream with
\* the request's channel and one session id; the session ids of /playlist
\* and /m3u8 come from the one counter, strictly increase in the order they
\* are taken, and no two requests hold the same one.
C19_PlaylistSessions ==
    /\ \A r \in 1..MaxSessions :
         (sessions[r].route = "playlist" /\ sessions[r].response # None
          /\ sessions[r].response[1].status = 200) =>
             LET body == sessions[r].response[1].body IN
             /\ body.header = "ffconcat version 1.0"
             /\ Len(body.files) = 2
             /\ \A i \in DOMAIN body.files :
                    /\ body.files[i].path = "/stream"
                    /\ body.files[i].channel = sessions[r].channel.channel[1]
                    /\ body.files[i].session = sessions[r].sessionId[1]
    /\ StreamCount = Len(issued)
    /\ \A i, j \in DOMAIN issued : i < j => issued[i] < issued[j]
    /\ \A r \in 1..MaxSessions :
         sessions[r].sessionId # None =>
             /\ \E i \in DOMAIN issued : issued[i] = sessions[r].sessionId[1]
             /\ \A q \in 1..MaxSessions \ {r} : sessions[q].sessionId # sessions[r].sessionId

\* A /playlist and an /m3u8 request ran side by side and both succeeded: the
\* manifest's two entries carry the playlist's id, the m3u8 answer another.
C19_Witness ==
    \E r, q \in 1..MaxSessions :
        /\ sessions[r].route = "playlist"
        /\ sessions[q].route = "m3u8"
        /\ sessions[r].response # None /\ sessions[r].response[1].status = 200
        /\ sessions[q].response # None /\ sessions[q].response[1].status = 200
        /\ sessions[r].sessionId # sessions[q].sessionId
        /\ Len(sessions[r].response[1].body.files) = 2
        /\ sessions[r].response[1].body.files[1].session = sessions[r].sessionId[1]
        /\ sessions[r].response[1].body.files[2].session = sessions[r].sessionId[1]

(***************************************************************************)
(* Claims about the argument lists (SpecPlan).                             *)
(***************************************************************************)
\* C20 (EncoderPlan determinism): two spawn calls on one FFMPEG instance
\* with identical inputs build identical argument lists.
C20_PlanDeterminism ==
    \A i, j \in DOMAIN spawned :
        spawned[i].input = spawned[j].input => spawned[i].ffmpegArgs = spawned[j].ffmpegArgs

(***************************************************************************)
(* Claims about the connection (SpecRoute).                                *)
(***************************************************************************)
\* C14 (client disconnect cancels the stream): once the connection of a
\* successful /stream request has closed, stop() has run: the player was
\* cleaned up, its encoder killed, and the output stream ended.
C14_DisconnectStops ==
    (rPc = "streaming" /\ connClosed) =>
        /\ stopped
        /\ cleanUps = 1
        /\ outEnded
        /\ \A c \in DOMAIN children :
               children[c].sigkill \/ children[c].state = "exited"

\* C15 (encoder crash terminates the stream): once the encoder's emitter
\* has emitted error, stop() has run and the output stream is ended.
C15_EncoderErrorStops ==
    \A c \in DOMAIN children :
        (rPc = "streaming" /\ Emitted(c, "error")) => (stopped /\ outEnded)

\* The pad labels the filters before position k of an argument list write.
MadeBefore(args, k) == UNION {args[j].makes : j \in 1..(k - 1)}

\* The value of -filter_complex does not begin with ';'.
NoLeadingSemi(args) ==
    \A k \in 1..Len(args) :
        args[k] = Flag("-filter_complex") => k < Len(args) /\ args[k + 1] # Semi

\* Every label read, by a filter or by -map, is written by exactly one
\* earlier filter.
LabelsResolved(args) ==
    \A k \in 1..Len(args) : \A l \in args[k].uses :
        Cardinality({j \in 1..(k - 1) : l \in args[j].makes}) = 1

\* No label is written twice.
LabelsUnique(args) ==
    LET writers == {j \in 1..Len(args) : args[j].makes # {}}
    IN \A j, k \in writers : j < k => args[j].makes \cap args[k].makes = {}

\* C21 (filter graph well-formedness): in every argument list spawn has
\* built, the -filter_complex value does not begin with ';', every pad label
\* read by a filter or by -map is written by exactly one earlier filter,
\* and no pad label is written twice.
C21_GraphWellFormed ==
    \A i \in 1..Len(spawned) :
        /\ NoLeadingSemi(spawned[i].ffmpegArgs)
        /\ LabelsResolved(spawned[i].ffmpegArgs)
        /\ LabelsUnique(spawned[i].ffmpegArgs)

\* A graph with the fps cap, the deinterlacer, scale, pad, the watermark,
\* the volume and apad at once, read by both -map operands.
C21_Witness ==
    \E i \in 1..Len(spawned) :
        LET args == spawned[i].ffmpegArgs
        IN /\ {"[fpchange]", "[deinterlaced]", "[scaled]", "[blackpadded]", "[siz]",
               "[icn]", "[comb]", "[boosted]", "[padded]"} \subseteq MadeBefore(args, Len(args))
           /\ \E k \in 1..Len(args) : args[k] = MapLabel("[comb]")
           /\ \E k \in 1..Len(args) : args[k] = MapLabel("[padded]")

\* The sum of the durations of a channel's programs.
LineupSum(ch) == SumDurations(ch.programs, Len(ch.programs))

\* The stored duration is further than SLACK from the sum.
DurationMismatch(ch) ==
    \/ ch.duration - LineupSum(ch) > SLACK
    \/ LineupSum(ch) - ch.duration > SLACK

\* C22, first half (lineup resolution failure): at a date on or after the
\* channel's start, resolving a channel of no programs throws.
C22_EmptyLineupThrows ==
    (resOut # None /\ resDate >= resChannel.startTime /\ Len(resChannel.programs) = 0)
        => resOut[1].threw

\* C22 (lineup resolution failure): at a date on or after the channel's
\* start, resolving a channel of no programs throws, and so does resolving a
\* channel whose stored duration is further than SLACK from the sum of its
\* programs' durations.
C22_LineupFailure ==
    (/\ resOut # None
     /\ resDate >= resChannel.startTime
     /\ Len(resChannel.programs) = 0 \/ DurationMismatch(resChannel))
        => resOut[1].threw

\* C23 (before channel start): at a date before the channel's start the
\* resolver returns the offline program of duration startTime - date with
\* timeElapsed 0 and index -1, whatever the lineup and the stored duration.
C23_BeforeStart ==
    (resOut # None /\ resDate < resChannel.startTime)
        => resOut[1] = [program |-> Offline(resChannel.startTime - resDate),
                        timeElapsed |-> 0, programIndex |-> -1, threw |-> FALSE]

\* Resolved before the start on a channel of no programs, where a look at
\* the lineup would have thrown.
C23_Witness ==
    /\ resOut # None
    /\ resDate < resChannel.startTime
    /\ Len(resChannel.programs) = 0
    /\ ~resOut[1].threw

\* The argument list has -t d somewhere before -f mpegts.
TimedBeforeOutput(args, d) ==
    \E k \in 1..(Len(args) - 1) :
        /\ args[k] = Flag("-t") /\ args[k + 1] = Num(d)
        /\ \E j \in (k + 2)..(Len(args) - 1) :
              args[j] = Flag("-f") /\ args[j + 1] = Flag("mpegts")

\* A call of spawnError (TRUE) or of spawnOffline (FALSE) among the calls.
IsErrorCall(e) == ~e.input.streamUrl.isString /\ e.input.streamUrl.errorTitle # "offline"
IsOfflineCall(e) == ~e.input.streamUrl.isString /\ e.input.streamUrl.errorTitle = "offline"

\* C24 (error and offline durations are bounded): the argument list of
\* spawnError has -t d before -f mpegts, with d the duration asked for but
\* at most 60 000 ms, and 60 000 ms when none was given; the argument list
\* of spawnOffline has -t with the duration asked for before -f mpegts.
C24_BoundedDurations ==
    \A i \in 1..Len(spawned) :
        LET e == spawned[i]
            d == IF e.asked = None \/ e.asked[1] > 60000 THEN 60000 ELSE e.asked[1]
        IN /\ IsErrorCall(e) => d <= 60000 /\ TimedBeforeOutput(e.ffmpegArgs, d)
           /\ IsOfflineCall(e) => TimedBeforeOutput(e.ffmpegArgs, e.asked[1])

\* spawnError asked for 90 000 ms has built a list with -t 60000.
C24_Witness ==
    \E i \in 1..Len(spawned) :
        /\ IsErrorCall(spawned[i])
        /\ spawned[i].asked = Some(90000)
        /\ TimedBeforeOutput(spawned[i].ffmpegArgs, 60000)

\* The collections of the channel that hold the clip of the given key.
HoldersOf(key) ==
    {j \in 1..Len(fChannel.fillers) :
        \E i \in 1..Len(fChannel.fillers[j].content) : fChannel.fillers[j].content[i].key = key}

\* At the last pick: the time since collection j was last picked on the
\* channel (7 days when it never was), and the gap handed to the picker.
SinceListPicked(j) ==
    LET t1 == lastPick[1].beforeFiller[fChannel.fillers[j].id]
    IN IF t1 = 0 THEN SEVEN_DAYS ELSE lastPick[1].at - t1
PickMaxDuration == lastPick[1].R + (IF lastPick[1].isFirst THEN SEVEN_DAYS ELSE 0)

\* The clips of collection j that reach its gate at the last pick: they fit
\* the gap and are off their own repeat cooldown.
ReachGate(j) ==
    {i \in 1..Len(fChannel.fillers[j].content) :
        LET clip == fChannel.fillers[j].content[i]
            t1 == lastPick[1].before[clip.key]
            since == IF t1 = 0 THEN SEVEN_DAYS ELSE lastPick[1].at - t1
        IN /\ clip.duration <= PickMaxDuration + SLACK
           /\ since >= RepeatCooldown(fChannel) - SLACK}

\* C25 (per-collection cooldown gate), as claimed: a clip the lottery
\* returns comes from a collection whose time since it was last picked on
\* the channel is at least the collection's cooldown.
C25_CollectionGateExact ==
    LotteryFiller =>
        \A j \in HoldersOf(lastPick[1].result.filler[1].key) :
            SinceListPicked(j) >= fChannel.fillers[j].cooldown

\* C25, amended: a clip the lottery returns comes from a collection whose
\* time since it was last picked, plus SLACK, is at least its cooldown; a
\* collection short of that returns no clip, and when a clip of it reaches
\* the gate the shortfall w = cooldown - time since is a minimumWait
\* candidate if the first such clip has duration + w <= maxDuration + SLACK.
C25_CollectionGate ==
    lastPick # None =>
        \A j \in 1..Len(fChannel.fillers) :
            LET w == fChannel.fillers[j].cooldown - SinceListPicked(j)
            IN /\ (LotteryFiller /\ j \in HoldersOf(lastPick[1].result.filler[1].key))
                     => SinceListPicked(j) + SLACK >= fChannel.fillers[j].cooldown
               /\ (SinceListPicked(j) + SLACK < fChannel.fillers[j].cooldown
                   /\ ReachGate(j) # {})
                     => LET first == CHOOSE i \in ReachGate(j) : \A k \in ReachGate(j) : i <= k
                        IN fChannel.fillers[j].content[first].duration + w
                               <= PickMaxDuration + SLACK
                           => lastPick[1].result.minimumWait <= w

\* Collection F2 was picked 10 100 ms ago, short of its cooldown of 25 000
\* by more than SLACK; its clip c is off its own cooldown and fits the gap;
\* the pick returned no clip of F2 and a minimumWait of at most 14 900.
C25_Witness ==
    /\ lastPick # None
    /\ Len(fChannel.fillers) = 2
    /\ lastPick[1].beforeFiller["F2"] # 0
    /\ SinceListPicked(2) = 10100
    /\ ReachGate(2) # {}
    /\ lastPick[1].result.minimumWait <= 14900
    /\ (lastPick[1].result.filler = None \/ lastPick[1].result.filler[1].key # "c")

\* The last pick found no filler and a minimumWait shorter than the gap.
Exhausted ==
    /\ lastPick # None
    /\ lastPick[1].result.filler = None
    /\ lastPick[1].R > lastPick[1].result.minimumWait

\* C26 (filler exhausted): when the picker returns no filler and the gap R
\* is longer than minimumWait, the item is the fallback clip or the offline
\* screen, without an error, and its streamDuration is at most minimumWait;
\* the offline screen lasts min(minimumWait, 10 minutes).
C26_FillerExhausted ==
    Exhausted =>
        LET item == lastPick[1].item
            wait == lastPick[1].result.minimumWait
        IN /\ item.type \in {"commercial", "offline"}
           /\ item.error = None
           /\ item.streamDuration # None
           /\ item.streamDuration[1] <= wait
           /\ item.type = "commercial" => item.fillerId = None
           /\ item.type = "offline" =>
                 item.duration = item.streamDuration[1]
                 /\ item.duration = (IF wait <= 600000 THEN wait ELSE 600000)

\* Clip c is on its repeat cooldown, 10 000 ms short, and nothing else can
\* be picked for the gap of 25 000 ms: the item lasts 10 000 ms.
C26_Witness ==
    /\ Exhausted
    /\ lastPick[1].R = 25000
    /\ lastPick[1].result.minimumWait = 10000
    /\ lastPick[1].item.streamDuration = Some(10000)

\* The gap in use at the last pick once the lottery came back empty: R, or
\* minimumWait when that is shorter.
RemainingUsed ==
    IF lastPick[1].R > lastPick[1].result.minimumWait
    THEN lastPick[1].result.minimumWait ELSE lastPick[1].R

\* C27 (offline fallbacks): when the lottery returns no filler, a channel
\* with offlineMode clip and a fallback list that is not empty yields a
\* commercial item for fallback[0]; any other channel yields an offline item
\* whose streamDuration and duration are min(remaining, 600 000 ms).
C27_OfflineFallbacks ==
    (lastPick # None /\ lastPick[1].result.filler = None) =>
        LET item == lastPick[1].item
            short == IF RemainingUsed <= 600000 THEN RemainingUsed ELSE 600000
        IN IF fChannel.offlineMode = "clip" /\ Len(fChannel.fallback) # 0
           THEN /\ item.type = "commercial"
                /\ item.key = fChannel.fallback[1].key
                /\ item.duration = fChannel.fallback[1].duration
                /\ item.fillerId = None
           ELSE /\ item.type = "offline"
                /\ item.streamDuration = Some(short)
                /\ item.duration = short
                /\ item.start = 0

\* Nothing fits a gap of 5 000 ms and the channel has the fallback clip f:
\* the item is f, cut to the gap.
C27_Witness ==
    /\ lastPick # None
    /\ lastPick[1].result.filler = None
    /\ lastPick[1].R = 5000
    /\ fChannel.offlineMode = "clip"
    /\ lastPick[1].item.type = "commercial"
    /\ lastPick[1].item.key = "f"
    /\ lastPick[1].item.streamDuration = Some(5000)

\* C28 (first-join shuffling), as claimed: on a first join a lottery
\* filler of duration d chosen for a gap R starts at an offset in
\* [0, max(0, d - R - 15 000 - SLACK)]; otherwise it starts at 0.
C28_FirstJoinStartClaimed ==
    LotteryFiller =>
        LET lp == lastPick[1]
            d == lp.result.filler[1].duration
            top == IF d - lp.R - 15000 - SLACK > 0 THEN d - lp.R - 15000 - SLACK ELSE 0
        IN IF lp.isFirst THEN 0 <= lp.item.start /\ lp.item.start <= top
           ELSE lp.item.start = 0

\* C28, amended: on a first join a lottery filler of duration d chosen for
\* a gap R starts at s0 + r with s0 = max(0, d - R) and r in
\* [0, max(0, d - s0 - 15 000 - SLACK)]; otherwise it starts at 0.
C28_FirstJoinStart ==
    LotteryFiller =>
        LET lp == lastPick[1]
            d == lp.result.filler[1].duration
            s0 == IF d - lp.R > 0 THEN d - lp.R ELSE 0
            more == IF d - s0 - 15000 - SLACK > 0 THEN d - s0 - 15000 - SLACK ELSE 0
        IN /\ lp.item.type = "commercial"
           /\ lp.item.key = lp.result.filler[1].key
           /\ IF lp.isFirst THEN s0 <= lp.item.start /\ lp.item.start <= s0 + more
              ELSE lp.item.start = 0

\* A first join into a gap of 900 000 ms got clip b of 170 000 ms, started
\* 145 100 ms in, the latest start there is.
C28_Witness ==
    /\ LotteryFiller
    /\ lastPick[1].isFirst
    /\ lastPick[1].R = 900000
    /\ lastPick[1].result.filler[1].key = "b"
    /\ lastPick[1].item.start = 145100

\* Select is about to look at a resolved program.
AtSelect == pc = "select" /\ lineupItem = None /\ currentProgram # None

LoadingRequest ==
    /\ req.first = Some(0)
    /\ pc # "start"
    /\ ~(NoChannelGiven \/ UnknownChannel \/ NoEncoderExecutable)

\* C30 (loading item): a request with first = 0 gets a 'loading' item of
\* duration 40, streamDuration 40 and start 0: it is the item of the request
\* up to the throttle check, and the item handed to the player unless the
\* throttle replaced it. For such a request no lineup is resolved, no
\* redirect is followed and nothing is recorded in the cache.
C30_LoadingItem ==
    LoadingRequest =>
        /\ isLoading
        /\ LoadingItem.type = "loading"
        /\ LoadingItem.duration = 40
        /\ LoadingItem.streamDuration = Some(40)
        /\ LoadingItem.start = 0
        /\ pc \in {"resolve", "select", "adjust", "record", "throttle"}
               => lineupItem = Some(LoadingItem)
        /\ pc \in {"record", "throttle", "play", "done"}
               => resolvedItem = Some(LoadingItem)
        /\ (handed # None /\ ~throttled) => handed = Some(LoadingItem)
        /\ pc = "done" => handed # None
        /\ currentProgram = None
        /\ redirectChannels = <<>>
        /\ upperBounds = <<>>
        /\ progPlayTime = [k \in ChannelIds \X ProgramKeys |-> 0]
        /\ fillerPlayTime = [k \in ChannelIds \X FillerIds |-> 0]
        /\ cacheItems \in StreamCaches

\* A request with first = 0 on a channel whose lineup starts with a redirect
\* has returned: the player was handed the loading item.
C30_Witness ==
    /\ LoadingRequest
    /\ pc = "done"
    /\ ~throttled
    /\ handed = Some(LoadingItem)
    /\ channels[req.channel[1]][1].programs[1].type = "redirect"

\* The instance under study was built with enableTranscoding false.
TranscodingDisabled == plan # None /\ ~plan[1].opts.enableTranscoding

HasFlag(args, flag) == \E k \in DOMAIN args : args[k] = Flag(flag)

\* Every occurrence of the flag is followed by `copy`.
Copies(args, flag) ==
    \A k \in DOMAIN args : args[k] = Flag(flag) => args[k + 1] = Str("copy")

\* The list copies both streams and holds no filter graph.
NoTranscoding(f, args) ==
    /\ ~HasFlag(args, "-filter_complex")
    /\ HasFlag(args, "-c:a")
    /\ Copies(args, "-c:a")
    /\ ~f.audioOnly => HasFlag(args, "-c:v")
    /\ Copies(args, "-c:v")

\* With transcoding off spawnError and spawnOffline start no process: every
\* list built is spawnStream's, and the events emitted are their error and
\* end.
C31_NothingGenerated ==
    TranscodingDisabled =>
        /\ \A i \in DOMAIN spawned : spawned[i].input.streamUrl.isString
        /\ \A k \in DOMAIN emitted : emitted[k] \in {"error", "end"}

\* With transcoding off, a file with a picture, progressive and no faster
\* than 120 frames a second, is copied whatever its size, pixel shape and
\* codecs.
C31_PlainFilesCopied ==
    TranscodingDisabled =>
        \A i \in DOMAIN spawned :
            (/\ ~spawned[i].input.streamStats.audioOnly
             /\ spawned[i].input.streamStats.videoScanType # "interlaced"
             /\ spawned[i].input.streamStats.videoFramerate <= 120)
                => NoTranscoding(plan[1], spawned[i].ffmpegArgs)

\* C31 (transcoding disabled means no transcoding), as claimed: with
\* enableTranscoding false every argument list spawnStream builds for a real
\* input uses -c:v copy and -c:a copy and holds no -filter_complex, for
\* every probe result; spawnOffline and spawnError spawn nothing.
C31_NoTranscoding ==
    TranscodingDisabled =>
        /\ \A i \in DOMAIN spawned :
               /\ spawned[i].input.streamUrl.isString
               /\ NoTranscoding(plan[1], spawned[i].ffmpegArgs)
        /\ \A k \in DOMAIN emitted : emitted[k] \in {"error", "end"}

\* C32 (stop() is idempotent): whatever triggers have fired, in whatever
\* order (the encoder's end event, the close of the client's connection, an
\* exception from player.play), player.cleanUp has been called at most once
\* and end-of-stream has been pushed to the output stream at most once, and
\* both exactly once when stop() has run.
C32_StopOnce ==
    /\ cleanUps <= 1
    /\ outPushes <= 1
    /\ cleanUps = (IF stopped THEN 1 ELSE 0)
    /\ outPushes = (IF stopped THEN 1 ELSE 0)
    /\ outEnded = stopped

\* Two triggers have fired on one request: the encoder emitted end and the
\* client's connection closed with the close listener registered.
C32_Witness ==
    /\ rPc = "streaming"
    /\ closeListener
    /\ connClosed
    /\ \E c \in DOMAIN children : Emitted(c, "end")
    /\ cleanUps = 1
    /\ outPushes = 1

\* C33 (filler collection attribution), as claimed: whenever the picker
\* returns a filler, its fillerId is the id of a collection of the channel
\* whose content holds the returned clip.
C33_Attribution ==
    (lastPick # None /\ lastPick[1].result.filler # None) =>
        LET f == lastPick[1].result.filler[1]
        IN /\ f.fillerId # None
           /\ \E j \in HoldersOf(f.key) : fChannel.fillers[j].id = f.fillerId[1]

\* The attribution holds on every channel whose repeat cooldown is longer
\* than SLACK: there a clip played at the time of the pick is on cooldown.
C33_AttributionLongCooldown ==
    RepeatCooldown(fChannel) > SLACK => C33_Attribution

\* At the last pick: collection j has a positive weight, is off its
\* cooldown, and holds a clip no longer than R + SLACK that is off the
\* channel's repeat cooldown.
Available(j) ==
    /\ fChannel.fillers[j].weight > 0
    /\ SinceListPicked(j) >= fChannel.fillers[j].cooldown
    /\ \E i \in ReachGate(j) :
           fChannel.fillers[j].content[i].duration <= lastPick[1].R + SLACK

\* C34 (filler availability), as claimed: if at least one collection with
\* positive weight is off its cooldown and holds a clip with duration
\* <= R + SLACK that is off the repeat cooldown, the picker returns a filler,
\* whatever the lottery draws.
C34_Availability ==
    (lastPick # None /\ \E j \in 1..Len(fChannel.fillers) : Available(j))
        => lastPick[1].result.filler # None

\* The availability holds on every channel whose repeat cooldown is longer
\* than SLACK.
C34_AvailabilityLongCooldown ==
    RepeatCooldown(fChannel) > SLACK => C34_Availability

\* The example of the claim: one collection (weight 1, cooldown 0) with one
\* never-played clip of 30 s and a gap of 300 s, not a first join, give that
\* clip from its start with streamDuration 30 s.
C34_Example ==
    (/\ lastPick # None
     /\ fChannel.fillers = <<G1>>
     /\ lastPick[1].R = 300000
     /\ ~lastPick[1].isFirst
     /\ lastPick[1].before["a"] = 0)
        => /\ lastPick[1].item.type = "commercial"
           /\ lastPick[1].item.key = "a"
           /\ lastPick[1].item.start = 0
           /\ lastPick[1].item.streamDuration = Some(30000)
           /\ lastPick[1].item.fillerId = Some("F1")

\* C35 (commercial item bounds): every commercial item createLineup makes,
\* of a lottery filler or of the fallback clip, on a first join or not, has
\* 0 <= start < duration, 1 <= streamDuration,
\* streamDuration <= max(1, remaining gap), the gap being the one cut to
\* minimumWait when no filler was found, and
\* start + streamDuration <= max(duration, start + 1).
C35_CommercialBounds ==
    (lastPick # None /\ lastPick[1].item.type = "commercial") =>
        LET item == lastPick[1].item
            gap == GapUsed(lastPick[1].R, lastPick[1].result)
        IN /\ 0 <= item.start
           /\ item.start < item.duration
           /\ item.streamDuration # None
           /\ 1 <= item.streamDuration[1]
           /\ item.streamDuration[1] <= Max(1, gap)
           /\ item.streamDuration[1] <= Max(1, lastPick[1].R)
           /\ item.start + item.streamDuration[1] <= Max(item.duration, item.start + 1)

\* On a first join a lottery filler longer than the gap was started inside
\* the clip and cut to the gap.
C35_Witness ==
    /\ lastPick # None
    /\ lastPick[1].isFirst
    /\ lastPick[1].result.filler # None
    /\ lastPick[1].item.type = "commercial"
    /\ lastPick[1].item.duration > lastPick[1].R
    /\ lastPick[1].item.start > 0
    /\ lastPick[1].item.streamDuration = Some(lastPick[1].R)

\* The last redirect the walk followed names a channel the store cannot
\* load.
HitMissing ==
    /\ redirectChannels # <<>>
    /\ LET last == redirectChannels[Len(redirectChannels)]
           r == getCurrentProgramAndTimeElapsed(startTimestamp, channels[last][1])
       IN /\ ~r.threw
          /\ r.program.type = "redirect"
          /\ channels[r.program.channel] = None

\* The offline item of 60 000 ms from 0 that carries the error of a redirect
\* to a missing channel.
IsMissingItem(item) ==
    /\ item.type = "offline"
    /\ item.duration = 60000
    /\ item.start = 0
    /\ item.error # None
    /\ item.error[1].text = "Invalid redirect to a channel that doesn't exist"

BenignExitAfterKill(c) ==
    /\ hasBeenKilled
    /\ children[c].handlers
    /\ children[c].state = "running"
    /\ children'[c].state = "exited"
    /\ children'[c].code \in {None, Some(255)}

AnsweredError(i) ==
    /\ concat[i].pc = "answered"
    /\ concat[i].result[1].type = "error"

\* On an error result neither route sends a stream or listens for the
\* connection's close, so stop() is never called.
C38_NoStreamOnError ==
    \A i \in DOMAIN concat :
        AnsweredError(i) =>
            /\ concat[i].reply.sent
            /\ concat[i].reply.body # Some(StreamPayload)
            /\ concat[i].reply.contentType = None
            /\ ~concat[i].closeListener
            /\ concat[i].stops = 0

\* C38 (concat endpoints propagate errors): when startStream returns an
\* error result for /video or /radio, the response has the result's
\* httpStatus as its status code and the result's message as its body, and
\* no stream is sent.
C38_ErrorsPropagate ==
    \A i \in DOMAIN concat :
        AnsweredError(i) =>
            /\ concat[i].reply.statusCode = concat[i].result[1].httpStatus
            /\ concat[i].reply.body = Some(StringPayload(concat[i].result[1].message))
            /\ ~concat[i].closeListener

====
